---- MODULE Spec2Model ----
(***************************************************************************)
(* Model of STIR's projection-data stream accessor (ProjDataFromStream):   *)
(* the byte addressing of bins (get_offset), the viewgram / sinogram /     *)
(* segment / bin operations on the shared stream, and their critical       *)
(* section.                                                                *)
(***************************************************************************)
EXTENDS Integers, Sequences, FiniteSets, TLC

VARIABLES
  pdi,                  \* proj_data_info_sptr: the geometry descriptor
  offset,               \* base byte offset of the data in the stream
  segment_sequence,     \* order of the segments in the stream
  storage_order,
  timing_poss_sequence, \* order of the TOF positions in the stream
  offset_3d_data,       \* bytes of one full 3D volume (set by activate_TOF)
  on_disk_data_type,
  scale_factor,
  result,               \* what the last get_offset call produced
  stream_data,          \* sino_stream: the stored element at each byte offset
  stream_pos,           \* sino_stream: the position the next read or write starts at
  stream_good,          \* sino_stream: no error flag is set
  io,                   \* the operation on the stream that ran last, and how it ended
  threads,              \* the call each thread is in, and where in it
  critical,             \* thread inside omp critical(PROJDATAFROMSTREAMIO), 0 if none
  positioned_by,        \* thread whose seek, read or write moved stream_pos last
  recon,                \* the OSMAPOSL reconstruction: its parameters, images and last update
  hdr                   \* the Interfile header operation run: what it was given and what it gave

accessor == <<pdi, offset, segment_sequence, storage_order, timing_poss_sequence,
              offset_3d_data, on_disk_data_type, scale_factor>>

stream == <<stream_data, stream_pos, stream_good>>

calls == <<threads, critical, positioned_by>>

vars == <<accessor, result, stream, io, calls, recon, hdr>>

(***************************************************************************)
(* Bounds of the model.                                                    *)
(***************************************************************************)
MaxSegmentNum == 1   \* segments run over -MaxSegmentNum..MaxSegmentNum at most
MaxAxialPoss == 2    \* axial positions of segment 0
MaxViews == 2
MaxTangPoss == 2
MaxTofPoss == 2      \* TOF positions

(***************************************************************************)
(* Storage orders (ProjDataFromStream::StorageOrder).                      *)
(***************************************************************************)
Segment_AxialPos_View_TangPos == "Segment_AxialPos_View_TangPos"
Segment_View_AxialPos_TangPos == "Segment_View_AxialPos_TangPos"
Timing_Segment_AxialPos_View_TangPos == "Timing_Segment_AxialPos_View_TangPos"
Timing_Segment_View_AxialPos_TangPos == "Timing_Segment_View_AxialPos_TangPos"
Unsupported == "Unsupported"

SupportedOrders == {Segment_AxialPos_View_TangPos, Segment_View_AxialPos_TangPos,
                    Timing_Segment_AxialPos_View_TangPos,
                    Timing_Segment_View_AxialPos_TangPos}

AxialPosMajor(so) == so \in {Segment_AxialPos_View_TangPos, Timing_Segment_AxialPos_View_TangPos}
ViewMajor(so) == so \in {Segment_View_AxialPos_TangPos, Timing_Segment_View_AxialPos_TangPos}

(***************************************************************************)
(* The geometry descriptor (ProjDataInfo) and its published ranges.        *)
(***************************************************************************)
Abs(x) == IF x < 0 THEN -x ELSE x

\* uniform: every segment has the axial positions of segment 0;
\* otherwise oblique segments have fewer (never less than one).
NumAxialPoss(a0, uniform, s) ==
  IF uniform THEN a0 ELSE IF a0 - Abs(s) < 1 THEN 1 ELSE a0 - Abs(s)

Geometries ==
  { [max_segment_num |-> ms,
     num_axial_poss |-> [s \in (-ms)..ms |-> NumAxialPoss(a0, u, s)],
     num_views |-> v,
     num_tangential_poss |-> t,
     num_tof_poss |-> k,
     other |-> 0] :
      ms \in 0..MaxSegmentNum, a0 \in {1, MaxAxialPoss}, u \in BOOLEAN,
      v \in {1, MaxViews}, t \in {1, MaxTangPoss}, k \in {1, MaxTofPoss} }

info_min_segment_num(p) == -p.max_segment_num
info_max_segment_num(p) == p.max_segment_num
info_num_segments(p) == 2 * p.max_segment_num + 1
info_min_tof_pos_num(p) == -(p.num_tof_poss \div 2)
info_max_tof_pos_num(p) == info_min_tof_pos_num(p) + p.num_tof_poss - 1
info_min_tangential_pos_num(p) == -(p.num_tangential_poss \div 2)

get_min_segment_num == info_min_segment_num(pdi)
get_max_segment_num == info_max_segment_num(pdi)
get_num_axial_poss(s) == pdi.num_axial_poss[s]
get_min_axial_pos_num(s) == 0
get_max_axial_pos_num(s) == get_min_axial_pos_num(s) + get_num_axial_poss(s) - 1
get_num_views == pdi.num_views
get_min_view_num == 0
get_max_view_num == get_min_view_num + get_num_views - 1
get_num_tangential_poss == pdi.num_tangential_poss
get_min_tangential_pos_num == info_min_tangential_pos_num(pdi)
get_max_tangential_pos_num == get_min_tangential_pos_num + get_num_tangential_poss - 1
get_num_tof_poss == pdi.num_tof_poss
get_min_tof_pos_num == info_min_tof_pos_num(pdi)
get_max_tof_pos_num == info_max_tof_pos_num(pdi)

\* NumericType::size_in_bytes
size_in_bytes(type) == IF type = "float" THEN 4 ELSE 2

Bin(s, v, a, t, k) ==
  [segment_num |-> s, view_num |-> v, axial_pos_num |-> a,
   tangential_pos_num |-> t, timing_pos_num |-> k]

InRange(b) ==
  /\ b.segment_num >= get_min_segment_num /\ b.segment_num <= get_max_segment_num
  /\ b.axial_pos_num >= get_min_axial_pos_num(b.segment_num)
  /\ b.axial_pos_num <= get_max_axial_pos_num(b.segment_num)
  /\ b.view_num >= get_min_view_num /\ b.view_num <= get_max_view_num
  /\ b.tangential_pos_num >= get_min_tangential_pos_num
  /\ b.tangential_pos_num <= get_max_tangential_pos_num
  /\ b.timing_pos_num >= get_min_tof_pos_num /\ b.timing_pos_num <= get_max_tof_pos_num

\* the bins a caller may ask for: every coordinate may exceed its range by one
CandidateBins ==
  { Bin(s, v, a, t, k) :
      s \in get_min_segment_num..(get_max_segment_num + 1),
      v \in get_min_view_num..get_max_view_num,
      a \in 0..get_num_axial_poss(0),
      t \in get_min_tangential_pos_num..get_max_tangential_pos_num,
      k \in get_min_tof_pos_num..(get_max_tof_pos_num + 1) }

InRangeBins == { b \in CandidateBins : InRange(b) }

(***************************************************************************)
(* ProjDataFromStream::get_offset                                          *)
(***************************************************************************)
\* std::find(seq.begin(), seq.end(), x) - seq.begin(): Len(seq) when absent
FindIndex(seq, x) ==
  IF \E i \in 1..Len(seq) : seq[i] = x
  THEN (CHOOSE i \in 1..Len(seq) : seq[i] = x /\ \A j \in 1..(i - 1) : seq[j] # x) - 1
  ELSE Len(seq)

\* for (int i = 0; i < index; i++) num_axial_pos_offset += get_num_axial_poss(segment_sequence[i]);
RECURSIVE num_axial_pos_offset_loop(_, _)
num_axial_pos_offset_loop(i, index) ==
  IF i >= index THEN 0
  ELSE get_num_axial_poss(segment_sequence[i + 1]) + num_axial_pos_offset_loop(i + 1, index)

\* segment_offset as it would be if every segment had the size of the bin's own
segment_offset_index_times_size(this_bin) ==
  LET index == FindIndex(segment_sequence, this_bin.segment_num)
  IN offset + index * get_num_axial_poss(this_bin.segment_num) * get_num_tangential_poss
              * get_num_views * size_in_bytes(on_disk_data_type)

\* the offset of the first byte of the bin's segment (before any TOF block is added)
segment_offset(this_bin) ==
  LET index == FindIndex(segment_sequence, this_bin.segment_num)
      num_axial_pos_offset == num_axial_pos_offset_loop(0, index)
  IN offset + num_axial_pos_offset * get_num_tangential_poss * get_num_views
              * size_in_bytes(on_disk_data_type)

\* the TOF block added to segment_offset when the geometry has TOF positions
timing_offset(this_bin) ==
  IF get_num_tof_poss > 1
  THEN FindIndex(timing_poss_sequence, this_bin.timing_pos_num) * offset_3d_data
  ELSE 0

\* intra_segment_offset with the View-major branch skipping views by the
\* number of views instead of the segment's number of axial positions
intra_segment_offset_view_stride(so, this_bin) ==
  LET es == size_in_bytes(on_disk_data_type)
      tang_offset == (this_bin.tangential_pos_num - get_min_tangential_pos_num) * es
      ax == this_bin.axial_pos_num - get_min_axial_pos_num(this_bin.segment_num)
      vw == this_bin.view_num - get_min_view_num
  IN IF AxialPosMajor(so)
     THEN ax * get_num_views * get_num_tangential_poss * es
          + vw * get_num_tangential_poss * es + tang_offset
     ELSE vw * get_num_views * get_num_tangential_poss * es
          + ax * get_num_tangential_poss * es + tang_offset

\* the part of the offset within the segment, by storage order
intra_segment_offset(so, this_bin) ==
  LET es == size_in_bytes(on_disk_data_type)
      tang_offset == (this_bin.tangential_pos_num - get_min_tangential_pos_num) * es
  IN IF AxialPosMajor(so)
     THEN LET ax_pos_offset ==
                (this_bin.axial_pos_num - get_min_axial_pos_num(this_bin.segment_num))
                * get_num_views * get_num_tangential_poss * es
              view_offset ==
                (this_bin.view_num - get_min_view_num) * get_num_tangential_poss * es
          IN ax_pos_offset + view_offset + tang_offset
     ELSE LET view_offset ==
                (this_bin.view_num - get_min_view_num)
                * get_num_axial_poss(this_bin.segment_num) * get_num_tangential_poss * es
              ax_pos_offset ==
                (this_bin.axial_pos_num - get_min_axial_pos_num(this_bin.segment_num))
                * get_num_tangential_poss * es
          IN ax_pos_offset + view_offset + tang_offset

Fatal == [err |-> TRUE, off |-> 0]
Offset(n) == [err |-> FALSE, off |-> n]

\* get_offset with the storage order as a parameter
get_offset_for(so, this_bin) ==
  IF ~(this_bin.segment_num >= get_min_segment_num
       /\ this_bin.segment_num <= get_max_segment_num)
  THEN Fatal
  ELSE IF ~(this_bin.axial_pos_num >= get_min_axial_pos_num(this_bin.segment_num)
            /\ this_bin.axial_pos_num <= get_max_axial_pos_num(this_bin.segment_num))
  THEN Fatal
  ELSE IF ~(this_bin.timing_pos_num >= get_min_tof_pos_num
            /\ this_bin.timing_pos_num <= get_max_tof_pos_num)
  THEN Fatal
  ELSE IF AxialPosMajor(so) \/ ViewMajor(so)
  THEN Offset(segment_offset(this_bin) + timing_offset(this_bin)
              + intra_segment_offset(so, this_bin))
  ELSE Fatal

get_offset(this_bin) == get_offset_for(storage_order, this_bin)

(***************************************************************************)
(* Construction: the two constructors and activate_TOF.                    *)
(***************************************************************************)
\* the sum activate_TOF accumulates over the segments from segment_num up
RECURSIVE activate_TOF_sum(_, _)
activate_TOF_sum(p, segment_num) ==
  IF segment_num > info_max_segment_num(p) THEN 0
  ELSE p.num_axial_poss[segment_num] * p.num_views * p.num_tangential_poss
       + activate_TOF_sum(p, segment_num + 1)

\* the storage order activate_TOF switches to ("error" when it has none)
activate_TOF_order(o) ==
  IF o = Segment_View_AxialPos_TangPos \/ o = Timing_Segment_View_AxialPos_TangPos
  THEN Timing_Segment_View_AxialPos_TangPos
  ELSE IF o = Segment_AxialPos_View_TangPos \/ o = Timing_Segment_AxialPos_View_TangPos
  THEN Timing_Segment_AxialPos_View_TangPos
  ELSE "error"

\* timing_poss_sequence[i] = min_tof_pos_num + i
activate_TOF_sequence(p) ==
  [i \in 1..p.num_tof_poss |-> info_min_tof_pos_num(p) + i - 1]

\* segment_sequence[i] = min_segment_num + i (constructor without a sequence)
default_segment_sequence(p) ==
  [i \in 1..info_num_segments(p) |-> info_min_segment_num(p) + i - 1]

\* The state a constructor leaves, for the arguments given. The builds with
\* assertions stop at an Unsupported order; the builds without them go on, and
\* activate_TOF then ends in error() for TOF data: no accessor exists then.
Constructed(p, offs, seq, o, type, sf) ==
  /\ pdi = p
  /\ offset = offs
  /\ segment_sequence = seq
  /\ on_disk_data_type = type
  /\ scale_factor = sf
  /\ IF p.num_tof_poss > 1
     THEN /\ activate_TOF_order(o) # "error"
          /\ storage_order = activate_TOF_order(o)
          /\ offset_3d_data = activate_TOF_sum(p, info_min_segment_num(p)) * size_in_bytes(type)
          /\ timing_poss_sequence = activate_TOF_sequence(p)
     ELSE /\ storage_order = o
          /\ offset_3d_data = 0     \* never assigned, and never read without TOF
          /\ timing_poss_sequence = <<>>

\* The sequences a caller hands over: orders of lo..hi as they occur in files
\* (ascending, descending, centre outwards), and lists that are no order of
\* lo..hi (one number repeated, the last one missing): nothing checks them.
CentreOut(n) == [i \in 1..n |-> IF i = 1 THEN 0 ELSE IF i % 2 = 0 THEN i \div 2 ELSE -(i \div 2)]
SequencesOver(lo, hi) ==
  LET n == hi - lo + 1
      asc == [i \in 1..n |-> lo + i - 1]
  IN {asc, [i \in 1..n |-> hi - i + 1], [i \in 1..n |-> lo], SubSeq(asc, 1, n - 1)}
     \cup (IF lo = -hi THEN {CentreOut(n)} ELSE {})

IsPermutationOf(seq, lo, hi) ==
  /\ Len(seq) = hi - lo + 1
  /\ \A x \in lo..hi : \E i \in 1..Len(seq) : seq[i] = x

SegmentSequences(p) == SequencesOver(info_min_segment_num(p), info_max_segment_num(p))
TimingSequences(p) == SequencesOver(info_min_tof_pos_num(p), info_max_tof_pos_num(p))

\* where the data starts and how it is stored
Sources == {[offs |-> 0, type |-> "float"], [offs |-> 6, type |-> "short"]}

AccessorInit(scales) ==
  \E p \in Geometries, src \in Sources, o \in SupportedOrders \cup {Unsupported},
     sf \in scales :
       \/ \E seq \in SegmentSequences(p) : Constructed(p, src.offs, seq, o, src.type, sf)
       \/ Constructed(p, src.offs, default_segment_sequence(p), o, src.type, sf)

(***************************************************************************)
(* The addressing layer on its own: the accessor as constructed, its       *)
(* timing-position sequence replaced at will, and get_offset applied.      *)
(***************************************************************************)
NoResult == [called |-> FALSE]
NoIo == [op |-> "none"]

\* no stream operation is looked at: the stream stays as it is
StreamIdle ==
  /\ stream_data = <<>>
  /\ stream_pos = 0
  /\ stream_good = TRUE
  /\ io = NoIo

\* no thread is in a call on the accessor
NoCalls ==
  /\ threads = <<>>
  /\ critical = 0
  /\ positioned_by = 0

\* no reconstruction object exists
NoRecon == [constructed |-> FALSE]

\* no header is read or written
NoHeader == [op |-> "none"]

Init ==
  /\ AccessorInit({1})
  /\ result = NoResult
  /\ StreamIdle
  /\ NoCalls
  /\ recon = NoRecon
  /\ hdr = NoHeader

set_timing_poss_sequence_in_stream(seq) ==
  /\ timing_poss_sequence' = seq
  /\ UNCHANGED <<pdi, offset, segment_sequence, storage_order, offset_3d_data,
                 on_disk_data_type, scale_factor, result, stream, io, calls, recon, hdr>>

\* the bins get_offset is asked for: all in range, and three out of range
OutOfRangeProbes ==
  { Bin(get_max_segment_num + 1, get_min_view_num, 0, get_min_tangential_pos_num,
        get_min_tof_pos_num),
    Bin(0, get_min_view_num, get_max_axial_pos_num(0) + 1, get_min_tangential_pos_num,
        get_min_tof_pos_num),
    Bin(0, get_min_view_num, 0, get_min_tangential_pos_num, get_max_tof_pos_num + 1) }

GetOffsetCall(this_bin) ==
  /\ result' = [called |-> TRUE, bin |-> this_bin, ret |-> get_offset(this_bin)]
  /\ UNCHANGED <<accessor, stream, io, calls, recon, hdr>>

SetTimingSequence ==
  \E seq \in TimingSequences(pdi) :
    /\ result = NoResult
    /\ seq # timing_poss_sequence
    /\ set_timing_poss_sequence_in_stream(seq)

\* one call is looked at in a run
GetOffset ==
  /\ result = NoResult
  /\ \E b \in InRangeBins \cup OutOfRangeProbes : GetOffsetCall(b)

Next == SetTimingSequence \/ GetOffset

Spec == Init /\ [][Next]_vars

(***************************************************************************)
(* The layout the specification states, written from its words.            *)
(***************************************************************************)
RECURSIVE SumOver(_, _)
SumOver(S, f) ==
  IF S = {} THEN 0 ELSE LET x == CHOOSE y \in S : TRUE IN f[x] + SumOver(S \ {x}, f)

ElementSize == size_in_bytes(on_disk_data_type)
SegmentRange == get_min_segment_num..get_max_segment_num

\* bytes of one segment: its sinograms of num_views x num_tangential_poss elements
SegmentBytes(s) == get_num_axial_poss(s) * get_num_views * get_num_tangential_poss * ElementSize

\* bytes of one full 3D volume: all segments
VolumeBytes == SumOver(SegmentRange, [s \in SegmentRange |-> SegmentBytes(s)])

\* the number of entries of seq before the first x (all of them when x is absent)
IndexIn(seq, x) == Cardinality({i \in 1..Len(seq) : \A j \in 1..i : seq[j] # x})

\* bytes of the segments that precede the bin's segment in the stream
PrecedingSegmentBytes(b) ==
  LET before == 1..IndexIn(segment_sequence, b.segment_num)
  IN SumOver(before, [i \in before |-> SegmentBytes(segment_sequence[i])])

TofActive == get_num_tof_poss > 1
TofBlockIndex(b) == IF TofActive THEN IndexIn(timing_poss_sequence, b.timing_pos_num) ELSE 0

AxialIndex(b) == b.axial_pos_num - get_min_axial_pos_num(b.segment_num)
ViewIndex(b) == b.view_num - get_min_view_num
TangIndex(b) == b.tangential_pos_num - get_min_tangential_pos_num

AxialMajorLayout(b) ==
  (AxialIndex(b) * get_num_views * get_num_tangential_poss
   + ViewIndex(b) * get_num_tangential_poss + TangIndex(b)) * ElementSize
ViewMajorLayout(b) ==
  (ViewIndex(b) * get_num_axial_poss(b.segment_num) * get_num_tangential_poss
   + AxialIndex(b) * get_num_tangential_poss + TangIndex(b)) * ElementSize
IntraSegmentLayout(b) ==
  IF AxialPosMajor(storage_order) THEN AxialMajorLayout(b) ELSE ViewMajorLayout(b)

Returned == result.called /\ ~result.ret.err

\* C1 (as claimed): under every supported storage order, TOF or not, and every
\* segment and timing-position sequence the accessor holds, two distinct bins
\* in range get byte ranges [offset, offset + element size) that do not overlap.
C1_DistinctBinsDoNotOverlap ==
  storage_order \in SupportedOrders =>
    \A b1 \in InRangeBins : \A b2 \in InRangeBins :
      b1 # b2 =>
        \/ get_offset(b1).off + ElementSize <= get_offset(b2).off
        \/ get_offset(b2).off + ElementSize <= get_offset(b1).off

\* The same with sequences that list every segment and (with TOF) every timing
\* position exactly once.
SequencesAreOrders ==
  /\ IsPermutationOf(segment_sequence, get_min_segment_num, get_max_segment_num)
  /\ TofActive => IsPermutationOf(timing_poss_sequence, get_min_tof_pos_num, get_max_tof_pos_num)
NoOverlapWhenSequencesAreOrders ==
  (SequencesAreOrders /\ result = NoResult) => C1_DistinctBinsDoNotOverlap

FirstBinOf(b) ==
  Bin(b.segment_num, get_min_view_num, get_min_axial_pos_num(b.segment_num),
      get_min_tangential_pos_num, b.timing_pos_num)

\* C3: within a segment, an AxialPos-major order puts a bin at
\* ((axial - min)*views*tang + (view - min)*tang + (tang - min)) * element size,
\* a View-major order at ((view - min)*axial(segment)*tang + (axial - min)*tang
\* + (tang - min)) * element size; with a single view both give the same offset.
C3_IntraSegmentLayout ==
  Returned =>
    /\ result.ret.off - get_offset(FirstBinOf(result.bin)).off
         = (IF AxialPosMajor(storage_order) THEN AxialMajorLayout(result.bin)
                                            ELSE ViewMajorLayout(result.bin))
    /\ get_num_views = 1 =>
         get_offset_for(Segment_AxialPos_View_TangPos, result.bin)
           = get_offset_for(Segment_View_AxialPos_TangPos, result.bin)

\* a bin off the first view and tangential position of a segment with several
\* axial positions, where the two layouts differ
C3_Witness ==
  /\ Returned
  /\ ViewIndex(result.bin) > 0 /\ TangIndex(result.bin) > 0
  /\ get_num_axial_poss(result.bin.segment_num) > 1
  /\ AxialMajorLayout(result.bin) # ViewMajorLayout(result.bin)

\* a bin of single-view data off the first axial and tangential position
C3_WitnessSingleView ==
  /\ Returned /\ get_num_views = 1
  /\ AxialIndex(result.bin) > 0 /\ TangIndex(result.bin) > 0

(***************************************************************************)
(* The stream, and the low-level reader and writer (read_data, write_data) *)
(* as the accessor uses them.                                              *)
(***************************************************************************)
\* what can go wrong in the last seek / read / write of an operation
Faults == {"none", "seek", "io", "scale"}

\* byte offsets of n consecutive elements from p
ElementOffsets(p, n) == {p + i * size_in_bytes(on_disk_data_type) : i \in 0..(n - 1)}

\* the stored elements read_data gets from p, as floats, with scale 1
ReadSeq(data, p, n) == [i \in 1..n |-> data[p + (i - 1) * size_in_bytes(on_disk_data_type)]]

\* the stream data after write_data has put the stored elements at p
Put(data, p, stored) ==
  LET es == size_in_bytes(on_disk_data_type)
  IN [o \in DOMAIN data \cup ElementOffsets(p, Len(stored)) |->
        IF o \in ElementOffsets(p, Len(stored)) THEN stored[(o - p) \div es + 1] ELSE data[o]]

\* write_data: the scale it reports back (none is applied to float output)
write_data_scale(type, scale) == IF type = "float" THEN 1 ELSE scale
\* write_data: the element stored for the float v (float as it is, integer
\* types v / scale rounded to the nearest)
write_data_element(type, v, scale) ==
  IF type = "float" THEN v ELSE (2 * v + scale) \div (2 * scale)

RECURSIVE ConcatAll(_)
ConcatAll(seqs) == IF seqs = <<>> THEN <<>> ELSE Head(seqs) \o ConcatAll(Tail(seqs))

\* the state an operation starts from: nothing done on the stream yet
Start ==
  [status |-> "ok", data |-> stream_data, pos |-> stream_pos, good |-> stream_good,
   seeks |-> 0, rws |-> 0, flushes |-> 0, flushed_rws |-> 0, out |-> <<>>]

\* detail::checked_seekg + read_data, row by row, until one fails
\* (status: "offset" get_offset called error(), "seek" checked_seekg did,
\* "failed" read, "scale" not 1)
RECURSIVE read_rows(_, _, _, _)
read_rows(rows, i, fault, st) ==
  IF i > Len(rows) THEN st
  ELSE LET off == get_offset(rows[i].bin)
           hit == fault # "none" /\ i = Len(rows)
           n == rows[i].n
       IN IF off.err THEN [st EXCEPT !.status = "offset"]
          ELSE IF hit /\ fault = "seek"
          THEN [st EXCEPT !.status = "seek", !.good = FALSE, !.seeks = @ + 1]
          ELSE IF (hit /\ fault = "io") \/ ~(ElementOffsets(off.off, n) \subseteq DOMAIN st.data)
          THEN [st EXCEPT !.status = "failed", !.good = FALSE, !.pos = off.off,
                          !.seeks = @ + 1, !.rws = @ + 1]
          ELSE LET st1 == [st EXCEPT !.pos = off.off + n * size_in_bytes(on_disk_data_type),
                                     !.seeks = @ + 1, !.rws = @ + 1,
                                     !.out = Append(@, ReadSeq(st.data, off.off, n))]
               IN IF hit /\ fault = "scale" THEN [st1 EXCEPT !.status = "scale"]
                  ELSE read_rows(rows, i + 1, fault, st1)

\* detail::checked_seekp + write_data with the given scale, row by row, until
\* one fails or write_data reports another scale than it was given
RECURSIVE write_rows(_, _, _, _, _)
write_rows(rows, i, fault, scale, st) ==
  IF i > Len(rows) THEN st
  ELSE LET off == get_offset(rows[i].bin)
           hit == fault # "none" /\ i = Len(rows)
           vals == rows[i].vals
       IN IF off.err THEN [st EXCEPT !.status = "offset"]
          ELSE IF hit /\ fault = "seek"
          THEN [st EXCEPT !.status = "seek", !.good = FALSE, !.seeks = @ + 1]
          ELSE IF hit /\ fault = "io"
          THEN [st EXCEPT !.status = "failed", !.good = FALSE, !.pos = off.off,
                          !.seeks = @ + 1, !.rws = @ + 1]
          ELSE LET used == IF hit /\ fault = "scale" THEN 2 * scale
                           ELSE write_data_scale(on_disk_data_type, scale)
                   stored == [k \in 1..Len(vals) |->
                                write_data_element(on_disk_data_type, vals[k], used)]
                   st1 == [st EXCEPT !.data = Put(@, off.off, stored),
                                     !.pos = off.off + Len(vals) * size_in_bytes(on_disk_data_type),
                                     !.seeks = @ + 1, !.rws = @ + 1]
               IN IF used # scale THEN [st1 EXCEPT !.status = "scale"]
                  ELSE write_rows(rows, i + 1, fault, scale, st1)

\* an operation that ends without flushing the stream
flush_skipped(st) == st
\* sino_stream->flush() at the end of the try block: skipped when error() threw
\* (flushed_rws: the writes done when the stream was flushed last)
flushed(st) ==
  IF st.status \in {"offset", "seek"} THEN st
  ELSE [st EXCEPT !.flushes = @ + 1, !.flushed_rws = st.rws]

\* in-memory arrays are functions of <<axial, view, tangential>> indices from 0
Indices(axials, views, tangs) == axials \X views \X tangs
AxialIndices(s) == 0..(get_num_axial_poss(s) - 1)
ViewIndices == 0..(get_num_views - 1)
TangIndices == 0..(get_num_tangential_poss - 1)
NoValue == <<>>

Ran(outcome, st, value) == [outcome |-> outcome, st |-> st, value |-> value]

(***************************************************************************)
(* ProjDataFromStream::get_viewgram, get_sinogram, get_bin_value,          *)
(* get_segment_by_sinogram, get_segment_by_view                            *)
(***************************************************************************)
get_viewgram(view_num, segment_num, timing_pos, fault) ==
  IF ~stream_good THEN Ran("fatal", Start, NoValue)
  ELSE
    LET T == get_num_tangential_poss
        A == get_num_axial_poss(segment_num)
        bin(a) == Bin(segment_num, view_num, a, get_min_tangential_pos_num, timing_pos)
        rows == IF AxialPosMajor(storage_order)
                THEN [i \in 1..A |-> [bin |-> bin(get_min_axial_pos_num(segment_num) + i - 1), n |-> T]]
                ELSE <<[bin |-> bin(get_min_axial_pos_num(segment_num)), n |-> A * T]>>
        st == IF AxialPosMajor(storage_order) \/ ViewMajor(storage_order)
              THEN read_rows(rows, 1, fault, Start)
              ELSE [Start EXCEPT !.status = "order"]
        flat == ConcatAll(st.out)
    IN IF st.status # "ok" THEN Ran("fatal", st, NoValue)
       ELSE Ran("value", st,
                [x \in Indices(AxialIndices(segment_num), {view_num - get_min_view_num}, TangIndices)
                   |-> flat[x[1] * T + x[3] + 1] * scale_factor])

get_sinogram(ax_pos_num, segment_num, timing_pos, fault) ==
  IF ~stream_good THEN Ran("fatal", Start, NoValue)
  ELSE
    LET T == get_num_tangential_poss
        V == get_num_views
        bin(v) == Bin(segment_num, v, ax_pos_num, get_min_tangential_pos_num, timing_pos)
        rows == IF AxialPosMajor(storage_order)
                THEN <<[bin |-> bin(get_min_view_num), n |-> V * T]>>
                ELSE [i \in 1..V |-> [bin |-> bin(get_min_view_num + i - 1), n |-> T]]
        st == IF AxialPosMajor(storage_order) \/ ViewMajor(storage_order)
              THEN read_rows(rows, 1, fault, Start)
              ELSE [Start EXCEPT !.status = "order"]
        flat == ConcatAll(st.out)
    IN IF st.status # "ok" THEN Ran("fatal", st, NoValue)
       ELSE Ran("value", st,
                [x \in Indices({ax_pos_num - get_min_axial_pos_num(segment_num)}, ViewIndices, TangIndices)
                   |-> flat[x[2] * T + x[3] + 1] * scale_factor])

\* get_bin_value returning the stored element, not multiplied by scale_factor
get_bin_value_as_stored(this_bin, fault) ==
  IF ~stream_good THEN Ran("fatal", Start, NoValue)
  ELSE
    LET st == read_rows(<<[bin |-> this_bin, n |-> 1]>>, 1, fault, Start)
    IN IF st.status # "ok" THEN Ran("fatal", st, NoValue)
       ELSE Ran("value", st, st.out[1][1])

get_bin_value(this_bin, fault) ==
  IF ~stream_good THEN Ran("fatal", Start, NoValue)
  ELSE
    LET st == read_rows(<<[bin |-> this_bin, n |-> 1]>>, 1, fault, Start)
    IN IF st.status # "ok" THEN Ran("fatal", st, NoValue)
       ELSE Ran("value", st, st.out[1][1] * scale_factor)

\* the whole segment in one read, for the storage order that has it contiguous
get_segment_in_one_go(segment_num, timing_num, fault, axial_major) ==
  LET T == get_num_tangential_poss
      V == get_num_views
      A == get_num_axial_poss(segment_num)
      bin == Bin(segment_num, get_min_view_num, get_min_axial_pos_num(segment_num),
                 get_min_tangential_pos_num, timing_num)
      st == read_rows(<<[bin |-> bin, n |-> A * V * T]>>, 1, fault, Start)
  IN IF st.status # "ok" THEN Ran("fatal", st, NoValue)
     ELSE Ran("value", st,
              [x \in Indices(AxialIndices(segment_num), ViewIndices, TangIndices) |->
                 (IF axial_major THEN st.out[1][(x[1] * V + x[2]) * T + x[3] + 1]
                                 ELSE st.out[1][(x[2] * A + x[1]) * T + x[3] + 1])
                 * scale_factor])

\* With an order that is neither AxialPos- nor View-major each of the two calls
\* the other: they are taken one call at a time (SegmentCallsOther below).
\* get_segment_by_sinogram taking what it reads as stored by sinogram always
get_segment_by_sinogram_as_stored(segment_num, timing_num, fault) ==
  IF ~stream_good THEN Ran("fatal", Start, NoValue)
  ELSE get_segment_in_one_go(segment_num, timing_num, fault, TRUE)

get_segment_by_sinogram(segment_num, timing_num, fault) ==
  IF ~stream_good THEN Ran("fatal", Start, NoValue)
  ELSE IF AxialPosMajor(storage_order)
  THEN get_segment_in_one_go(segment_num, timing_num, fault, TRUE)
  ELSE get_segment_in_one_go(segment_num, timing_num, fault, FALSE)

get_segment_by_view(segment_num, timing_pos, fault) ==
  IF ~stream_good THEN Ran("fatal", Start, NoValue)
  ELSE IF ViewMajor(storage_order)
  THEN get_segment_in_one_go(segment_num, timing_pos, fault, FALSE)
  ELSE get_segment_in_one_go(segment_num, timing_pos, fault, TRUE)

(***************************************************************************)
(* ProjDataFromStream::set_viewgram, set_sinogram, set_bin_value,          *)
(* set_segment. The object written has its own descriptor (info), its      *)
(* coordinates and its values.                                             *)
(***************************************************************************)
\* the row of tangential positions of v at <<axial, view>>, as it is written
RowOf(vals, a, v, T) == [t \in 1..T |-> vals[<<a, v, t - 1>>]]
\* all rows of one view (a viewgram), of one axial position (a sinogram)
RowsOfView(vals, v, A, T) == ConcatAll([i \in 1..A |-> RowOf(vals, i - 1, v, T)])
RowsOfAxialPos(vals, a, V, T) == ConcatAll([i \in 1..V |-> RowOf(vals, a, i - 1, T)])

\* set_viewgram handing write_data the scale 1 in place of scale_factor
set_viewgram_with_scale_one(v, fault) ==
  IF ~stream_good \/ pdi # v.info THEN Ran("no", Start, NoValue)
  ELSE
    LET segment_num == v.segment_num
        T == get_num_tangential_poss
        A == get_num_axial_poss(segment_num)
        vw == v.view_num - get_min_view_num
        bin(a) == Bin(segment_num, v.view_num, a, get_min_tangential_pos_num, v.timing_pos_num)
        rows == IF AxialPosMajor(storage_order)
                THEN [i \in 1..A |-> [bin |-> bin(get_min_axial_pos_num(segment_num) + i - 1),
                                      vals |-> RowOf(v.vals, i - 1, vw, T)]]
                ELSE <<[bin |-> bin(get_min_axial_pos_num(segment_num)),
                        vals |-> RowsOfView(v.vals, vw, A, T)]>>
        st == IF AxialPosMajor(storage_order) \/ ViewMajor(storage_order)
              THEN flushed(write_rows(rows, 1, fault, 1, Start))
              ELSE flushed([Start EXCEPT !.status = "order"])
    IN IF st.status # "ok" THEN Ran("fatal", st, NoValue) ELSE Ran("yes", st, NoValue)

set_viewgram(v, fault) ==
  IF ~stream_good THEN Ran("no", Start, NoValue)
  ELSE IF get_num_tangential_poss # v.info.num_tangential_poss THEN Ran("no", Start, NoValue)
  ELSE IF get_num_axial_poss(v.segment_num) # v.info.num_axial_poss[v.segment_num]
  THEN Ran("no", Start, NoValue)
  ELSE IF pdi # v.info THEN Ran("no", Start, NoValue)
  ELSE
    LET segment_num == v.segment_num
        T == get_num_tangential_poss
        A == get_num_axial_poss(segment_num)
        vw == v.view_num - get_min_view_num
        bin(a) == Bin(segment_num, v.view_num, a, get_min_tangential_pos_num, v.timing_pos_num)
        rows == IF AxialPosMajor(storage_order)
                THEN [i \in 1..A |-> [bin |-> bin(get_min_axial_pos_num(segment_num) + i - 1),
                                      vals |-> RowOf(v.vals, i - 1, vw, T)]]
                ELSE <<[bin |-> bin(get_min_axial_pos_num(segment_num)),
                        vals |-> RowsOfView(v.vals, vw, A, T)]>>
        st == IF AxialPosMajor(storage_order) \/ ViewMajor(storage_order)
              THEN flushed(write_rows(rows, 1, fault, scale_factor, Start))
              ELSE flushed([Start EXCEPT !.status = "order"])
    IN IF st.status # "ok" THEN Ran("fatal", st, NoValue) ELSE Ran("yes", st, NoValue)

set_sinogram(s, fault) ==
  IF ~stream_good THEN Ran("no", Start, NoValue)
  ELSE IF pdi # s.info THEN Ran("no", Start, NoValue)
  ELSE
    LET segment_num == s.segment_num
        T == get_num_tangential_poss
        V == get_num_views
        ax == s.axial_pos_num - get_min_axial_pos_num(segment_num)
        bin(v) == Bin(segment_num, v, s.axial_pos_num, get_min_tangential_pos_num, s.timing_pos_num)
        rows == IF AxialPosMajor(storage_order)
                THEN <<[bin |-> bin(get_min_view_num), vals |-> RowsOfAxialPos(s.vals, ax, V, T)]>>
                ELSE [i \in 1..V |-> [bin |-> bin(get_min_view_num + i - 1),
                                      vals |-> RowOf(s.vals, ax, i - 1, T)]]
        st == IF AxialPosMajor(storage_order) \/ ViewMajor(storage_order)
              THEN flushed(write_rows(rows, 1, fault, scale_factor, Start))
              ELSE flushed([Start EXCEPT !.status = "order"])
    IN IF st.status # "ok" THEN Ran("no", st, NoValue) ELSE Ran("yes", st, NoValue)

set_bin_value(this_bin, value, fault) ==
  IF ~stream_good THEN Ran("fatal", Start, NoValue)
  ELSE
    LET st == write_rows(<<[bin |-> this_bin, vals |-> <<value>>]>>, 1, fault, 1, Start)
    IN IF st.status # "ok" THEN Ran("fatal", st, NoValue) ELSE Ran("done", st, NoValue)

\* set_segment seeking to the first bin of segment 0 whatever the segment is
set_segment_in_one_go_at_segment_zero(seg, fault, axial_major) ==
  LET vals == ConcatAll([i \in 1..seg.info.num_axial_poss[seg.segment_num] |->
                          RowsOfAxialPos(seg.vals, i - 1, seg.info.num_views,
                                         seg.info.num_tangential_poss)])
      bin == Bin(0, get_min_view_num, get_min_axial_pos_num(0), get_min_tangential_pos_num,
                 seg.timing_pos_num)
      st == flushed(write_rows(<<[bin |-> bin, vals |-> vals]>>, 1, fault, scale_factor, Start))
  IN IF st.status # "ok" THEN Ran("no", st, NoValue) ELSE Ran("yes", st, NoValue)

\* the whole segment in one write, for the storage order that has it contiguous;
\* the array written has the segment's own numbers of axial positions and views
set_segment_in_one_go(seg, fault, axial_major) ==
  LET segment_num == seg.segment_num
      T == seg.info.num_tangential_poss
      V == seg.info.num_views
      A == seg.info.num_axial_poss[segment_num]
      bin == Bin(segment_num, get_min_view_num, get_min_axial_pos_num(segment_num),
                 get_min_tangential_pos_num, seg.timing_pos_num)
      vals == IF axial_major
              THEN ConcatAll([i \in 1..A |-> RowsOfAxialPos(seg.vals, i - 1, V, T)])
              ELSE ConcatAll([i \in 1..V |-> RowsOfView(seg.vals, i - 1, A, T)])
      st == flushed(write_rows(<<[bin |-> bin, vals |-> vals]>>, 1, fault, scale_factor, Start))
  IN IF st.status # "ok" THEN Ran("no", st, NoValue) ELSE Ran("yes", st, NoValue)

\* set_segment(SegmentBySinogram) and set_segment(SegmentByView): with an order
\* that is neither AxialPos- nor View-major each calls the other (SegmentCallsOther).
set_segment(seg, fault) ==
  IF ~stream_good THEN Ran("fatal", Start, NoValue)
  ELSE IF get_num_tangential_poss # seg.info.num_tangential_poss THEN Ran("no", Start, NoValue)
  ELSE IF get_num_views # seg.info.num_views THEN Ran("no", Start, NoValue)
  ELSE set_segment_in_one_go(seg, fault, AxialPosMajor(storage_order))

(***************************************************************************)
(* The accessor on a stream: one operation from the state the stream is in *)
(***************************************************************************)
MaxCallDepth == 3    \* nested calls followed when two functions call each other

\* 3 segments with 1, 2 and 1 axial positions, 2 views, 2 tangential positions
IOGeometry(k) ==
  [max_segment_num |-> 1,
   num_axial_poss |-> [s \in (-1)..1 |-> IF s = 0 THEN 2 ELSE 1],
   num_views |-> 2, num_tangential_poss |-> 2, num_tof_poss |-> k, other |-> 0]

\* the file holds every element of the data: element number n holds n
InitialFile ==
  LET n == activate_TOF_sum(pdi, get_min_segment_num) * get_num_tof_poss
      es == size_in_bytes(on_disk_data_type)
  IN [o \in {offset + i * es : i \in 0..(n - 1)} |-> (o - offset) \div es]

InitIO ==
  /\ \E k \in {1, 2}, src \in Sources, sf \in {1, 2},
        o \in SupportedOrders \cup {Unsupported} :
       \E seq \in SegmentSequences(IOGeometry(k)) :
         Constructed(IOGeometry(k), src.offs, seq, o, src.type, sf)
  /\ result = NoResult
  /\ stream_data = InitialFile
  /\ stream_pos = 0
  /\ stream_good \in BOOLEAN
  /\ io = NoIo
  /\ NoCalls
  /\ recon = NoRecon
  /\ hdr = NoHeader

\* the operation ends: what it returned and what it did to the stream
Ends(op, args, ran) ==
  /\ io = NoIo
  /\ io' = [op |-> op, args |-> args, outcome |-> ran.outcome, value |-> ran.value,
            good_before |-> stream_good, status |-> ran.st.status,
            seeks |-> ran.st.seeks, rws |-> ran.st.rws, flushes |-> ran.st.flushes,
            flushed_rws |-> ran.st.flushed_rws]
  /\ stream_data' = ran.st.data
  /\ stream_pos' = ran.st.pos
  /\ stream_good' = ran.st.good
  /\ UNCHANGED <<accessor, result, calls, recon, hdr>>

Supported == AxialPosMajor(storage_order) \/ ViewMajor(storage_order)
Segments == get_min_segment_num..get_max_segment_num
Views == get_min_view_num..get_max_view_num
\* timing positions asked for: those of the data and the one after
TimingPositions == get_min_tof_pos_num..(get_max_tof_pos_num + 1)

GetViewgram ==
  /\ io = NoIo
  /\ \E view_num \in Views, segment_num \in Segments, timing_pos \in TimingPositions, f \in Faults :
      Ends("get_viewgram",
           [view_num |-> view_num, segment_num |-> segment_num, timing_pos_num |-> timing_pos,
            fault |-> f],
           get_viewgram(view_num, segment_num, timing_pos, f))

GetSinogram ==
  /\ io = NoIo
  /\ \E segment_num \in Segments, timing_pos \in TimingPositions, f \in Faults :
      \E ax_pos_num \in get_min_axial_pos_num(segment_num)..(get_max_axial_pos_num(segment_num) + 1) :
        Ends("get_sinogram",
             [axial_pos_num |-> ax_pos_num, segment_num |-> segment_num,
              timing_pos_num |-> timing_pos, fault |-> f],
             get_sinogram(ax_pos_num, segment_num, timing_pos, f))

GetBinValue ==
  /\ io = NoIo
  /\ \E b \in InRangeBins \cup OutOfRangeProbes, f \in Faults :
      Ends("get_bin_value", [bin |-> b, fault |-> f], get_bin_value(b, f))

GetSegmentBySinogram ==
  /\ io = NoIo
  /\ \E segment_num \in Segments, timing_num \in TimingPositions, f \in Faults :
      /\ Supported \/ ~stream_good
      /\ Ends("get_segment_by_sinogram",
              [segment_num |-> segment_num, timing_pos_num |-> timing_num, fault |-> f],
              get_segment_by_sinogram(segment_num, timing_num, f))

GetSegmentByView ==
  /\ io = NoIo
  /\ \E segment_num \in Segments, timing_pos \in TimingPositions, f \in Faults :
      /\ Supported \/ ~stream_good
      /\ Ends("get_segment_by_view",
              [segment_num |-> segment_num, timing_pos_num |-> timing_pos, fault |-> f],
              get_segment_by_view(segment_num, timing_pos, f))

\* The objects handed to the set operations. Their descriptor is the
\* accessor's, or differs from it in one part.
OtherInfos ==
  { [pdi EXCEPT !.num_tangential_poss = @ + 1],
    [pdi EXCEPT !.num_views = @ + 1],
    [pdi EXCEPT !.num_axial_poss = [s \in DOMAIN @ |-> @[s] + 1]],
    [pdi EXCEPT !.num_tof_poss = @ + 1],
    [pdi EXCEPT !.other = 1] }

\* values that tell the elements of an array apart; c shifts them all
Fill(c, axials, views, tangs) ==
  [x \in Indices(axials, views, tangs) |-> c + 2 * (9 * x[1] + 3 * x[2] + x[3])]

ViewgramOf(info, view_num, segment_num, timing_pos, vals) ==
  [info |-> info, view_num |-> view_num, segment_num |-> segment_num,
   timing_pos_num |-> timing_pos, vals |-> vals]
SinogramOf(info, ax_pos_num, segment_num, timing_pos, vals) ==
  [info |-> info, axial_pos_num |-> ax_pos_num, segment_num |-> segment_num,
   timing_pos_num |-> timing_pos, vals |-> vals]
SegmentOf(info, segment_num, timing_pos, vals) ==
  [info |-> info, segment_num |-> segment_num, timing_pos_num |-> timing_pos, vals |-> vals]

InfoTimingPositions(info) == info_min_tof_pos_num(info)..info_max_tof_pos_num(info)
InfoAxialIndices(info, s) == 0..(info.num_axial_poss[s] - 1)
InfoViewIndices(info) == 0..(info.num_views - 1)
InfoTangIndices(info) == 0..(info.num_tangential_poss - 1)

Viewgrams ==
  { ViewgramOf(pdi, v, s, k, Fill(c, AxialIndices(s), {v - get_min_view_num}, TangIndices)) :
      v \in Views, s \in Segments, k \in InfoTimingPositions(pdi), c \in {0, 1} }
  \cup
  UNION { { ViewgramOf(info, get_min_view_num, 0, k,
               Fill(1, InfoAxialIndices(info, 0), {0}, InfoTangIndices(info))) :
              k \in {info_min_tof_pos_num(info), info_max_tof_pos_num(info)} } :
          info \in OtherInfos }

\* the viewgram get_viewgram returns now for the place of v (v when it returns none)
ReadBack(v) ==
  LET got == get_viewgram(v.view_num, v.segment_num, v.timing_pos_num, "none")
  IN IF got.outcome = "value" THEN [v EXCEPT !.vals = got.value] ELSE v
\* v is what get_viewgram returns now for its place
IsReadBack(v) ==
  /\ pdi = v.info
  /\ get_viewgram(v.view_num, v.segment_num, v.timing_pos_num, "none").outcome = "value"
  /\ v = ReadBack(v)

SetViewgram ==
  /\ io = NoIo
  /\ \E v \in Viewgrams \cup {ReadBack(w) : w \in Viewgrams}, f \in Faults :
      Ends("set_viewgram",
           [object |-> v, fault |-> f, read_back |-> IsReadBack(v)],
           set_viewgram(v, f))

Sinograms ==
  { SinogramOf(pdi, a, s, k, Fill(c, {a - get_min_axial_pos_num(s)}, ViewIndices, TangIndices)) :
      a \in 0..get_max_axial_pos_num(0), s \in Segments, k \in InfoTimingPositions(pdi), c \in {0, 1} }
  \cup
  UNION { { SinogramOf(info, 0, 0, k, Fill(1, {0}, InfoViewIndices(info), InfoTangIndices(info))) :
              k \in {info_min_tof_pos_num(info), info_max_tof_pos_num(info)} } :
          info \in OtherInfos }

SetSinogram ==
  /\ io = NoIo
  /\ \E s \in Sinograms, f \in Faults :
      /\ s.axial_pos_num <= s.info.num_axial_poss[s.segment_num] - 1
      /\ Ends("set_sinogram", [object |-> s, fault |-> f], set_sinogram(s, f))

SetBinValue ==
  /\ io = NoIo
  /\ \E b \in InRangeBins \cup OutOfRangeProbes, value \in {1, 2}, f \in Faults :
      Ends("set_bin_value", [bin |-> b, value |-> value, fault |-> f], set_bin_value(b, value, f))

SegmentsToSet ==
  { SegmentOf(pdi, s, k, Fill(c, AxialIndices(s), ViewIndices, TangIndices)) :
      s \in Segments, k \in InfoTimingPositions(pdi), c \in {0, 1} }
  \cup
  UNION { { SegmentOf(info, 0, k,
              Fill(1, InfoAxialIndices(info, 0), InfoViewIndices(info), InfoTangIndices(info))) :
              k \in {info_min_tof_pos_num(info), info_max_tof_pos_num(info)} } :
          info \in OtherInfos }

SetSegmentBySinogram ==
  /\ io = NoIo
  /\ \E seg \in SegmentsToSet, f \in Faults :
      /\ Supported \/ ~stream_good \/ get_num_tangential_poss # seg.info.num_tangential_poss
         \/ get_num_views # seg.info.num_views
      /\ Ends("set_segment_by_sinogram", [object |-> seg, fault |-> f], set_segment(seg, f))

SetSegmentByView ==
  /\ io = NoIo
  /\ \E seg \in SegmentsToSet, f \in Faults :
      /\ Supported \/ ~stream_good \/ get_num_tangential_poss # seg.info.num_tangential_poss
         \/ get_num_views # seg.info.num_views
      /\ Ends("set_segment_by_view", [object |-> seg, fault |-> f], set_segment(seg, f))

\* With a storage order that is none of the four, get_segment_by_sinogram calls
\* get_segment_by_view, which calls get_segment_by_sinogram, and so on; the
\* two set_segment overloads do the same, once their checks have passed.
Calling(op, depth) == [op |-> op, outcome |-> "running", depth |-> depth]
OtherOf(op) ==
  CASE op = "get_segment_by_sinogram" -> "get_segment_by_view"
    [] op = "get_segment_by_view" -> "get_segment_by_sinogram"
    [] op = "set_segment_by_sinogram" -> "set_segment_by_view"
    [] op = "set_segment_by_view" -> "set_segment_by_sinogram"

SegmentCallStarts ==
  /\ io = NoIo
  /\ stream_good /\ ~Supported
  /\ \E op \in {"get_segment_by_sinogram", "get_segment_by_view",
                "set_segment_by_sinogram", "set_segment_by_view"} : io' = Calling(op, 1)
  /\ UNCHANGED <<accessor, result, stream, calls, recon, hdr>>

SegmentCallsOther ==
  /\ io.op # "none" /\ io.outcome = "running"
  /\ io.depth < MaxCallDepth
  /\ io' = Calling(OtherOf(io.op), io.depth + 1)
  /\ UNCHANGED <<accessor, result, stream, calls, recon, hdr>>

NextIO ==
  \/ GetViewgram \/ GetSinogram \/ GetBinValue \/ GetSegmentBySinogram \/ GetSegmentByView
  \/ SetViewgram \/ SetSinogram \/ SetBinValue \/ SetSegmentBySinogram \/ SetSegmentByView
  \/ SegmentCallStarts \/ SegmentCallsOther

SpecIO == InitIO /\ [][NextIO]_vars

(***************************************************************************)
(* Claims on the stream operations                                         *)
(***************************************************************************)
SetViewgramSucceeded == io.op = "set_viewgram" /\ io.outcome = "yes"
\* get_viewgram, from the state reached, for the place of the object written
GetViewgramAfter ==
  get_viewgram(io.args.object.view_num, io.args.object.segment_num,
               io.args.object.timing_pos_num, "none")
\* what the on-disk type keeps of the value x
Kept(x) == write_data_element(on_disk_data_type, x, scale_factor) * scale_factor

\* C4 as stated: after a successful set_viewgram(v), get_viewgram for the same
\* view, segment and timing position returns exactly the values of v.
C4_GetReturnsExactlyWhatWasSet ==
  SetViewgramSucceeded =>
    /\ GetViewgramAfter.outcome = "value"
    /\ GetViewgramAfter.value = io.args.object.vals

\* C4: after a successful set_viewgram(v), get_viewgram for the same view,
\* segment and timing position returns every value of v as the on-disk type
\* keeps it (the value divided by the scale factor, rounded for an integer
\* type, times the scale factor): exactly v where its values are kept as they
\* are, and so exactly v when v was obtained from get_viewgram.
C4_GetReturnsWhatTheOnDiskTypeKeeps ==
  SetViewgramSucceeded =>
    LET v == io.args.object
    IN /\ GetViewgramAfter.outcome = "value"
       /\ DOMAIN GetViewgramAfter.value = DOMAIN v.vals
       /\ \A x \in DOMAIN v.vals : GetViewgramAfter.value[x] = Kept(v.vals[x])
       /\ ((\A x \in DOMAIN v.vals : Kept(v.vals[x]) = v.vals[x]) => GetViewgramAfter.value = v.vals)
       /\ (io.args.read_back => GetViewgramAfter.value = v.vals)

\* a viewgram with a value the 2-byte type does not keep was written
\* successfully to TOF data
C4_Witness ==
  /\ SetViewgramSucceeded
  /\ ~io.args.read_back
  /\ get_num_tof_poss > 1
  /\ \E x \in DOMAIN io.args.object.vals : Kept(io.args.object.vals[x]) # io.args.object.vals[x]

\* a viewgram obtained from get_viewgram was written back, with scale factor 2
C4_WitnessReadBack ==
  /\ SetViewgramSucceeded /\ io.args.read_back /\ scale_factor = 2
  /\ \E x \in DOMAIN io.args.object.vals : io.args.object.vals[x] # 0

SetOps == {"set_viewgram", "set_sinogram", "set_segment_by_sinogram", "set_segment_by_view"}
BlockOps ==
  SetOps \cup {"get_viewgram", "get_sinogram", "get_segment_by_sinogram", "get_segment_by_view"}
Ended(ops) == io.op \in ops /\ io.outcome # "running"
\* the operation was handed an object whose geometry is not the accessor's,
\* on a stream in a good state
MismatchedObjectGiven == Ended(SetOps) /\ io.good_before /\ io.args.object.info # pdi
Untouched == io.seeks = 0 /\ io.rws = 0 /\ io.flushes = 0

\* C7 as stated: set_viewgram, set_sinogram and set_segment, given an object
\* that differs from the accessor's geometry in the number of tangential
\* positions, of axial positions or views, or in any part of the descriptor,
\* return the failure indicator and do no seek, write or flush.
C7_MismatchFailsWithoutTouchingTheStream ==
  MismatchedObjectGiven => (io.outcome = "no" /\ Untouched)

\* what holds of C7: set_viewgram and set_sinogram do so for every mismatch,
\* set_segment for a mismatch in the number of tangential positions or views
C7_MismatchFailsWhereItIsCompared ==
  /\ (MismatchedObjectGiven /\ io.op \in {"set_viewgram", "set_sinogram"})
       => (io.outcome = "no" /\ Untouched)
  /\ (MismatchedObjectGiven
        /\ (io.args.object.info.num_tangential_poss # get_num_tangential_poss
            \/ io.args.object.info.num_views # get_num_views))
       => (io.outcome = "no" /\ Untouched)

\* set_segment wrote a segment with one more axial position than the accessor's
C7_SegmentWithOtherAxialCountWritten ==
  /\ MismatchedObjectGiven /\ io.outcome = "yes" /\ io.rws > 0
  /\ io.args.object.info.num_axial_poss[0] # get_num_axial_poss(0)

\* the stream failed in the operation: after a seek, in a read or write, or
\* the reader or writer reported another scale than expected
StreamFailed == io.status \in {"seek", "failed", "scale"}

\* C8 as stated: in every block-level operation a stream error after a seek,
\* a failed read or write, or a scale mismatch ends in a fatal error and is
\* never returned as a failure indicator.
C8_StreamFailureIsFatal ==
  (Ended(BlockOps) /\ StreamFailed) => io.outcome = "fatal"

\* what holds of C8: it is so in the get operations and in set_viewgram
C8_StreamFailureIsFatalInGetAndSetViewgram ==
  (Ended(BlockOps \ {"set_sinogram", "set_segment_by_sinogram", "set_segment_by_view"})
     /\ StreamFailed) => io.outcome = "fatal"

\* set_sinogram returned the failure indicator after a seek error
C8_SetSinogramReturnedAfterSeekError ==
  Ended({"set_sinogram"}) /\ io.status = "seek" /\ io.outcome = "no"

AllOps == BlockOps \cup {"get_bin_value", "set_bin_value"}
\* get_offset was called with a bin out of the accessor's range
OffsetOutOfRange == io.status = "offset" /\ Supported

\* C9 as stated: an operation that computes the offset of a bin whose segment,
\* axial position or timing position is out of range ends in a fatal error,
\* without a seek, read or write.
C9_OutOfRangeBinIsFatal ==
  (Ended(AllOps) /\ OffsetOutOfRange) => (io.outcome = "fatal" /\ io.seeks = 0 /\ io.rws = 0)

\* what holds of C9: no seek, read or write follows, and the operations other
\* than set_segment end in a fatal error
C9_OutOfRangeBinStopsTheOperation ==
  (Ended(AllOps) /\ OffsetOutOfRange) =>
    /\ io.seeks = 0 /\ io.rws = 0
    /\ (io.op \notin {"set_segment_by_sinogram", "set_segment_by_view"} => io.outcome = "fatal")

\* set_segment returned the failure indicator for a timing position out of range
C9_SetSegmentReturnedForTimingOutOfRange ==
  /\ Ended({"set_segment_by_sinogram", "set_segment_by_view"}) /\ OffsetOutOfRange
  /\ io.outcome = "no"
  /\ io.args.object.timing_pos_num < get_min_tof_pos_num

\* the operation found the storage order to be none of the four
FoundUnsupportedOrder == ~Supported /\ io.status \in {"order", "offset"}

\* C10 as stated: every operation that finds the storage order to be none of
\* the four supported ones ends in a fatal error: it does not return a failure
\* indicator.
C10_UnsupportedOrderIsFatal ==
  (Ended(AllOps) /\ FoundUnsupportedOrder) => io.outcome = "fatal"

\* what holds of C10: it is so in the operations other than set_sinogram, the
\* segment operations apart, which call each other
C10_UnsupportedOrderIsFatalButInSetSinogram ==
  (Ended(AllOps \ {"set_sinogram"}) /\ FoundUnsupportedOrder) => io.outcome = "fatal"

\* a segment operation under such an order only ever calls the other one
C10_SegmentCallGoesOn ==
  [][(io.op # "none" /\ io.outcome = "running") => (io'.outcome = "running" /\ io'.depth > io.depth)]_vars

\* set_sinogram returned the failure indicator, having flushed the stream
C10_SetSinogramReturned ==
  Ended({"set_sinogram"}) /\ FoundUnsupportedOrder /\ io.outcome = "no" /\ io.flushes = 1

\* a segment operation is MaxCallDepth calls deep
C10_SegmentCallsNested ==
  io.op # "none" /\ io.outcome = "running" /\ io.depth = MaxCallDepth

(***************************************************************************)
(* Threads calling the accessor at the same time. Every step of a call     *)
(* that touches the stream is a step of its own: a seek, a read or write.  *)
(***************************************************************************)
NumThreads == 2
Threads == 1..NumThreads

\* the seeks of a call and the number of elements read or written after each
Row(bin, n) == [off |-> get_offset(bin).off, n |-> n]
ViewgramRows(view_num, segment_num) ==
  LET bin(a) == Bin(segment_num, view_num, a, get_min_tangential_pos_num, 0)
      A == get_num_axial_poss(segment_num)
  IN IF AxialPosMajor(storage_order)
     THEN [i \in 1..A |-> Row(bin(get_min_axial_pos_num(segment_num) + i - 1), get_num_tangential_poss)]
     ELSE <<Row(bin(get_min_axial_pos_num(segment_num)), A * get_num_tangential_poss)>>
SinogramRows(ax_pos_num, segment_num) ==
  LET bin(v) == Bin(segment_num, v, ax_pos_num, get_min_tangential_pos_num, 0)
  IN IF AxialPosMajor(storage_order)
     THEN <<Row(bin(get_min_view_num), get_num_views * get_num_tangential_poss)>>
     ELSE [i \in 1..get_num_views |-> Row(bin(get_min_view_num + i - 1), get_num_tangential_poss)]
SegmentRows(segment_num) ==
  <<Row(Bin(segment_num, get_min_view_num, get_min_axial_pos_num(segment_num),
            get_min_tangential_pos_num, 0),
        get_num_axial_poss(segment_num) * get_num_views * get_num_tangential_poss)>>
BinRows(segment_num) ==
  <<Row(Bin(segment_num, get_max_view_num, get_max_axial_pos_num(segment_num),
            get_max_tangential_pos_num, 0), 1)>>

BlockLevel ==
  {"get_viewgram", "set_viewgram", "get_sinogram", "set_sinogram",
   "get_segment_by_sinogram", "get_segment_by_view",
   "set_segment_by_sinogram", "set_segment_by_view"}
SegmentLevel ==
  {"get_segment_by_sinogram", "get_segment_by_view",
   "set_segment_by_sinogram", "set_segment_by_view"}
BinLevel == {"get_bin_value", "set_bin_value"}

\* the calls a thread makes: on segment 0 for the get, on segment 1 for the set
RowsOfCall(op) ==
  CASE op = "get_viewgram" -> ViewgramRows(get_min_view_num, 0)
    [] op = "set_viewgram" -> ViewgramRows(get_max_view_num, 0)
    [] op = "get_sinogram" -> SinogramRows(0, 0)
    [] op = "set_sinogram" -> SinogramRows(0, 1)
    [] op = "get_segment_by_sinogram" -> SegmentRows(0)
    [] op = "get_segment_by_view" -> SegmentRows(0)
    [] op = "set_segment_by_sinogram" -> SegmentRows(1)
    [] op = "set_segment_by_view" -> SegmentRows(1)
    [] op = "get_bin_value" -> BinRows(0)
    [] op = "set_bin_value" -> BinRows(1)

Idle == [pc |-> "idle"]
InCall(op, pc, i, sought, displaced) ==
  [op |-> op, pc |-> pc, i |-> i, sought |-> sought, displaced |-> displaced,
   succeeded |-> TRUE, depth |-> 1]
Is(t, ops, pcs) == threads[t].pc # "idle" /\ threads[t].op \in ops /\ threads[t].pc \in pcs

InitThreads ==
  /\ \E o \in {Segment_AxialPos_View_TangPos, Segment_View_AxialPos_TangPos} :
       Constructed(IOGeometry(1), 0, default_segment_sequence(IOGeometry(1)), o, "float", 1)
  /\ result = NoResult
  /\ stream_data = InitialFile
  /\ stream_pos = 0
  /\ stream_good = TRUE
  /\ io = NoIo
  /\ threads = [t \in Threads |-> Idle]
  /\ critical = 0
  /\ positioned_by = 0
  /\ recon = NoRecon
  /\ hdr = NoHeader

Steps(t, to) ==
  /\ threads' = [threads EXCEPT ![t] = to]
  /\ UNCHANGED <<accessor, result, stream_data, stream_good, io, recon, hdr>>

\* the call starts: the checks on the stream pass and a block-level call comes
\* to the test of the storage order and the critical section, a bin-level one
\* to its seek; or the stream is in a bad state and the call ends at once.
\* The threads are alike: they are numbered in the order of their calls.
Call(t) ==
  /\ threads[t] = Idle
  /\ \A u \in 1..(t - 1) : threads[u] # Idle
  /\ \E op \in BlockLevel \cup BinLevel :
       IF stream_good
       THEN Steps(t, InCall(op, IF op \in BlockLevel THEN "enter" ELSE "seek", 1, 0, FALSE))
       ELSE Steps(t, [InCall(op, "done", 1, 0, FALSE) EXCEPT !.succeeded = FALSE])
  /\ UNCHANGED <<stream_pos, critical, positioned_by>>

\* the storage order a segment operation reads or writes in itself
InOwnOrder(op) ==
  CASE op \in {"get_segment_by_sinogram", "set_segment_by_sinogram"} -> AxialPosMajor(storage_order)
    [] op \in {"get_segment_by_view", "set_segment_by_view"} -> ViewMajor(storage_order)
    [] OTHER -> TRUE

\* the else branch of a segment operation: it calls the other one, which
\* starts with the checks on the stream
CallsOther(t) ==
  /\ Is(t, SegmentLevel, {"enter"})
  /\ ~InOwnOrder(threads[t].op)
  /\ IF stream_good
     THEN Steps(t, [threads[t] EXCEPT !.op = OtherOf(@), !.depth = @ + 1])
     ELSE Steps(t, [threads[t] EXCEPT !.op = OtherOf(@), !.pc = "done", !.succeeded = FALSE])
  /\ UNCHANGED <<stream_pos, critical, positioned_by>>

\* a thread that took the critical section while another is still inside
EnterCriticalAtOnce(t) ==
  /\ Is(t, BlockLevel, {"enter"})
  /\ InOwnOrder(threads[t].op)
  /\ critical' = t
  /\ Steps(t, [threads[t] EXCEPT !.pc = "seek", !.depth = 1])
  /\ UNCHANGED <<stream_pos, positioned_by>>

\* #pragma omp critical(PROJDATAFROMSTREAMIO): in when no thread is inside
EnterCritical(t) ==
  /\ Is(t, BlockLevel, {"enter"})
  /\ InOwnOrder(threads[t].op)
  /\ critical = 0
  /\ critical' = t
  /\ Steps(t, [threads[t] EXCEPT !.pc = "seek", !.depth = 1])
  /\ UNCHANGED <<stream_pos, positioned_by>>

\* detail::checked_seekg / checked_seekp to the offset of the row
SeekRow(t) ==
  LET row == RowsOfCall(threads[t].op)[threads[t].i]
  IN /\ stream_pos' = row.off
     /\ positioned_by' = t
     /\ Steps(t, [threads[t] EXCEPT !.pc = "rw", !.sought = row.off])

BlockSeek(t) ==
  /\ Is(t, BlockLevel, {"seek"})
  /\ SeekRow(t)
  /\ UNCHANGED critical

\* a seek of a bin-level call that waited for the critical section
BinSeekInCritical(t) ==
  /\ Is(t, BinLevel, {"seek"})
  /\ critical = 0
  /\ SeekRow(t)
  /\ UNCHANGED critical

\* get_bin_value, set_bin_value: the seek, under no critical section
BinSeek(t) ==
  /\ Is(t, BinLevel, {"seek"})
  /\ SeekRow(t)
  /\ UNCHANGED critical

\* read_data / write_data of the row, from where the stream is positioned now
ReadWrite(t) ==
  /\ Is(t, BlockLevel \cup BinLevel, {"rw"})
  /\ LET rows == RowsOfCall(threads[t].op)
         me == threads[t]
         moved == me.displaced \/ stream_pos # me.sought
     IN /\ stream_pos' = stream_pos + rows[me.i].n * size_in_bytes(on_disk_data_type)
        /\ positioned_by' = t
        /\ IF me.i < Len(rows)
           THEN Steps(t, [me EXCEPT !.pc = "seek", !.i = @ + 1, !.displaced = moved])
           ELSE Steps(t, [me EXCEPT !.pc = IF me.op \in BlockLevel THEN "leave" ELSE "done",
                                    !.i = 1, !.sought = 0,
                                    !.displaced = moved /\ me.op \in BlockLevel])
  /\ UNCHANGED critical

\* an error raised inside the critical section is not caught there: the call
\* is left with the critical section still taken
BlockFaultEscapes(t) ==
  /\ Is(t, BlockLevel, {"seek", "rw"})
  /\ \E fault \in {"offset", "seek", "data"} :
       /\ (fault = "data") = (threads[t].pc = "rw")
       /\ stream_good' = (stream_good /\ fault = "offset")
  /\ threads' = [threads EXCEPT ![t] = [@ EXCEPT !.pc = "done", !.i = 1, !.sought = 0, !.displaced = FALSE,
                                               !.succeeded = FALSE]]
  /\ UNCHANGED <<accessor, result, stream_data, stream_pos, io, recon, hdr, critical,
                 positioned_by>>

\* get_offset or the checked seek ends in error(), caught by the catch (...)
\* of the try block that is the critical section, or the read or write fails:
\* succeeded is Succeeded::no and the call comes to the end of the section.
\* An offset that is not computed leaves the stream alone; a seek, read or
\* write that fails leaves it in a bad state.
BlockFault(t) ==
  /\ Is(t, BlockLevel, {"seek", "rw"})
  /\ \E fault \in {"offset", "seek", "data"} :
       /\ (fault = "data") = (threads[t].pc = "rw")
       /\ stream_good' = (stream_good /\ fault = "offset")
  /\ threads' = [threads EXCEPT ![t] = [@ EXCEPT !.pc = "leave", !.i = 1, !.sought = 0,
                                               !.succeeded = FALSE]]
  /\ UNCHANGED <<accessor, result, stream_data, stream_pos, io, recon, hdr, critical,
                 positioned_by>>

\* the end of the critical section (after the flush of a set operation)
LeaveCritical(t) ==
  /\ Is(t, BlockLevel, {"leave"})
  /\ critical' = 0
  /\ Steps(t, [threads[t] EXCEPT !.pc = "done", !.displaced = FALSE])
  /\ UNCHANGED <<stream_pos, positioned_by>>

NextThreads ==
  \E t \in Threads :
    \/ Call(t) \/ CallsOther(t) \/ EnterCritical(t) \/ BlockSeek(t) \/ BinSeek(t)
    \/ ReadWrite(t) \/ BlockFault(t) \/ LeaveCritical(t)

SpecThreads == InitThreads /\ [][NextThreads]_vars

(***************************************************************************)
(* Claims on concurrent calls                                              *)
(***************************************************************************)
\* between entering the critical section and leaving it
InRegion(t) == Is(t, BlockLevel, {"seek", "rw", "leave"})
\* the step is a seek, read or write of a block-level call of t
BlockStreamStep(t) ==
  /\ Is(t, BlockLevel, {"seek", "rw"})
  /\ threads'[t] # threads[t]

\* C5: of the threads in block-level calls at most one at a time is in a
\* seek+read/write region, and it is the one in the critical section; no
\* other block-level call is in its region when one seeks, reads or writes,
\* and when the stream is not where a block-level call has put it for its
\* read or write, no block-level call has moved it.
C5_BlockLevelRegionsExclude ==
  /\ \A t \in Threads, u \in Threads : (InRegion(t) /\ InRegion(u)) => t = u
  /\ \A t \in Threads : InRegion(t) <=> critical = t
  /\ critical # 0 => InRegion(critical)
  /\ \A t \in Threads :
       (Is(t, BlockLevel, {"rw"}) /\ stream_pos # threads[t].sought)
         => Is(positioned_by, BinLevel, {"rw", "done"})

\* C5, of the steps: a seek, read or write of a block-level call is taken
\* while no other block-level call is between its seek and its read or write
\* or between two of its rows.
C5_BlockLevelStepsAlone ==
  [][\A t \in Threads : BlockStreamStep(t) =>
       \A u \in Threads \ {t} : ~InRegion(u)]_vars

\* a block-level call is between its two rows while another waits to enter
C5_Witness ==
  \E t \in Threads, u \in Threads :
    /\ Is(t, BlockLevel, {"seek"}) /\ threads[t].i = 2
    /\ Is(u, BlockLevel, {"enter"})

\* C6: a bin-level call is never in the critical section of the block-level
\* calls, and its seek can be taken at once, whichever thread is in there.
C6_BinLevelSeeksOutsideTheCriticalSection ==
  \A t \in Threads :
    /\ Is(t, BinLevel, {"seek", "rw", "done"}) => critical # t
    /\ Is(t, BinLevel, {"seek"}) => ENABLED BinSeek(t)

\* a block-level call has read or written where the seek of a bin-level call
\* of another thread had put the stream, between its own seek and its read or
\* write
C6_Witness ==
  \E t \in Threads, u \in Threads :
    /\ Is(t, BlockLevel, {"seek", "leave"}) /\ threads[t].displaced
    /\ Is(u, BinLevel, {"rw", "done"})
    /\ t # u

\* the stream is off the place a block-level call sought, before its read or write
C6_WitnessBetweenSeekAndReadWrite ==
  \E t \in Threads :
    /\ Is(t, BlockLevel, {"rw"}) /\ stream_pos # threads[t].sought
    /\ Is(positioned_by, BinLevel, {"rw"})

(***************************************************************************)
(* Claims on the storage order the accessor holds                          *)
(***************************************************************************)
TimingOrders == {Timing_Segment_AxialPos_View_TangPos, Timing_Segment_View_AxialPos_TangPos}
PlainOrders == {Segment_AxialPos_View_TangPos, Segment_View_AxialPos_TangPos}

\* C11 as stated, of the states: with more than one TOF position the storage
\* order is one of the two Timing orders, with exactly one TOF position it is
\* one of the two orders without Timing.
C11_OrderGoesWithTof ==
  /\ get_num_tof_poss > 1 => storage_order \in TimingOrders
  /\ get_num_tof_poss = 1 => storage_order \in PlainOrders

\* what holds of C11: with more than one TOF position the order is a Timing one
C11_TofDataHasTimingOrder ==
  get_num_tof_poss > 1 => storage_order \in TimingOrders

\* what holds of C11: no operation assigns the storage order after construction
C11_OrderNeverChanges == [][storage_order' = storage_order]_vars

\* data with one TOF position held under a Timing order, an offset computed
C11_TimingOrderWithoutTof ==
  get_num_tof_poss = 1 /\ storage_order \in TimingOrders /\ result.called

(***************************************************************************)
(* Claims on the scale factor at the level of one bin                      *)
(***************************************************************************)
SetBinValueDone == io.op = "set_bin_value" /\ io.outcome = "done"
\* get_bin_value, from the state reached, for the bin written
GetBinValueAfter == get_bin_value(io.args.bin, "none")
\* get_viewgram, from the state reached, for the viewgram of the bin written
GetViewgramOfBinAfter ==
  get_viewgram(io.args.bin.view_num, io.args.bin.segment_num, io.args.bin.timing_pos_num, "none")
\* the place of the bin in the array of its viewgram
PlaceInViewgram(b) ==
  <<b.axial_pos_num - get_min_axial_pos_num(b.segment_num), b.view_num - get_min_view_num,
    b.tangential_pos_num - get_min_tangential_pos_num>>

\* C12 as stated: for any scale factor, a value v written with set_bin_value
\* at an in-range bin is returned as v by get_bin_value and by get_viewgram
\* for that bin.
C12_BinValueReadAsWritten ==
  SetBinValueDone =>
    /\ GetBinValueAfter.outcome = "value" /\ GetBinValueAfter.value = io.args.value
    /\ GetViewgramOfBinAfter.outcome = "value"
    /\ GetViewgramOfBinAfter.value[PlaceInViewgram(io.args.bin)] = io.args.value

\* what holds of C12: the value comes back multiplied by the scale factor,
\* so as it was written when the scale factor is 1
C12_BinValueReadTimesScaleFactor ==
  SetBinValueDone =>
    /\ GetBinValueAfter.outcome = "value"
    /\ GetBinValueAfter.value = io.args.value * scale_factor
    /\ GetViewgramOfBinAfter.outcome = "value"
    /\ GetViewgramOfBinAfter.value[PlaceInViewgram(io.args.bin)] = io.args.value * scale_factor

\* a value was written with set_bin_value under the scale factor 2
C12_BinWrittenUnderScaleTwo ==
  SetBinValueDone /\ scale_factor = 2 /\ GetBinValueAfter.value = 2 * io.args.value

(***************************************************************************)
(* Claims on the flush of the set operations                               *)
(***************************************************************************)
\* C13: whenever set_viewgram, set_sinogram or set_segment reports success, it
\* has written, and has flushed the stream after the last of its writes.
C13_SuccessIsFlushed ==
  (Ended(SetOps) /\ io.outcome = "yes") =>
    /\ io.rws > 0
    /\ io.flushes = 1
    /\ io.flushed_rws = io.rws

\* a set operation that writes row by row reported success
C13_Witness ==
  Ended(SetOps) /\ io.outcome = "yes" /\ io.rws > 1 /\ io.flushes = 1

(***************************************************************************)
(* Claims on reading a segment in the granularity the stream is not in     *)
(***************************************************************************)
\* get_segment_by_sinogram returned from a View-major stream, or
\* get_segment_by_view from an AxialPos-major one
SegmentReadAcross ==
  /\ io.op \in {"get_segment_by_sinogram", "get_segment_by_view"}
  /\ io.outcome = "value"
  /\ IF io.op = "get_segment_by_sinogram" THEN ViewMajor(storage_order)
     ELSE AxialPosMajor(storage_order)

\* C14 as stated: the segment is then read one view (one sinogram) at a time,
\* with one seek and read per view (per axial position) of the segment.
C14_OneSeekPerViewOrAxialPosition ==
  SegmentReadAcross =>
    LET n == IF io.op = "get_segment_by_sinogram" THEN get_num_views
             ELSE get_num_axial_poss(io.args.segment_num)
    IN io.seeks = n /\ io.rws = n

\* C14: the segment is then read by the other segment operation with one seek
\* and one read, and what is returned holds at every axial position, view and
\* tangential position the value get_viewgram returns there.
C14_OneSeekAndTheValuesOfTheViewgrams ==
  SegmentReadAcross =>
    /\ io.seeks = 1 /\ io.rws = 1
    /\ \A v \in Views :
         LET vg == get_viewgram(v, io.args.segment_num, io.args.timing_pos_num, "none")
         IN \A x \in DOMAIN vg.value : io.value[x] = vg.value[x]

\* get_segment_by_sinogram returned a segment of two axial positions and two
\* views from a View-major stream
C14_Witness ==
  /\ SegmentReadAcross /\ io.op = "get_segment_by_sinogram"
  /\ get_num_axial_poss(io.args.segment_num) > 1 /\ get_num_views > 1

(***************************************************************************)
(* ExportArrayTests::run_static_test, its filling of file-backed           *)
(* projection data: every segment set to its own number, in turn.          *)
(***************************************************************************)
\* the segment get_empty_segment_by_view(segment_num) gives, filled with c
FilledSegment(segment_num, c) ==
  SegmentOf(pdi, segment_num, 0,
            [x \in Indices(AxialIndices(segment_num), ViewIndices, TangIndices) |-> c])

Filling(next, outcome) == [op |-> "run_static_test", next |-> next, outcome |-> outcome]

\* the projection data of the test: float data with scale factor 1, in a file
\* just created or one that holds data already
InitFill ==
  /\ \E k \in {1, 2}, offs \in {0, 6},
        o \in {Segment_AxialPos_View_TangPos, Segment_View_AxialPos_TangPos} :
       \/ Constructed(IOGeometry(k), offs, CentreOut(3), o, "float", 1)
       \/ Constructed(IOGeometry(k), offs, default_segment_sequence(IOGeometry(k)), o, "float", 1)
  /\ result = NoResult
  /\ stream_data \in {<<>>, InitialFile}
  /\ stream_pos = 0
  /\ stream_good = TRUE
  /\ io = NoIo
  /\ NoCalls
  /\ recon = NoRecon
  /\ hdr = NoHeader

TestStarts ==
  /\ io = NoIo
  /\ io' = Filling(get_min_segment_num, "running")
  /\ UNCHANGED <<accessor, result, stream, calls, recon, hdr>>

\* one turn of the loop: set_segment of the next segment, error() unless it succeeds
FillSegment ==
  /\ io.op = "run_static_test" /\ io.outcome = "running"
  /\ \E f \in {"none", "io"} :
       LET ran == set_segment(FilledSegment(io.next, io.next), f)
       IN /\ stream_data' = ran.st.data
          /\ stream_pos' = ran.st.pos
          /\ stream_good' = ran.st.good
          /\ io' = IF ran.outcome # "yes" THEN Filling(io.next, "error")
                   ELSE IF io.next = get_max_segment_num THEN Filling(io.next, "filled")
                   ELSE Filling(io.next + 1, "running")
  /\ UNCHANGED <<accessor, result, calls, recon, hdr>>

NextFill == TestStarts \/ FillSegment

SpecFill == InitFill /\ [][NextFill]_vars

Filled == io.op = "run_static_test" /\ io.outcome = "filled"

C15_OtherSegmentsUntouched ==
  [][(io.op = "run_static_test" /\ io.outcome = "running" /\ io'.outcome # "error") =>
       \A s \in Segments \ {io.next} :
         get_segment_by_view(s, 0, "none").value = get_segment_by_view(s, 0, "none").value']_vars

small_num == 1
One == 1000000 * small_num
\* NumericInfo<float>().max_value(), the default of maximum_relative_change:
\* above every value an image of the model holds
max_value == 2000 * One

Sgn(x) == IF x < 0 THEN 0 - 1 ELSE 1
MinOf(a, b) == IF b < a THEN b ELSE a      \* std::min
MaxOf(a, b) == IF a < b THEN b ELSE a      \* std::max

\* a * b on the grid, rounded towards zero; the product is taken in parts of
\* three digits so that no intermediate value leaves the 32-bit integers
MulParts(a, b) ==
  LET a1 == a \div 1000
      a0 == a % 1000
      b1 == b \div 1000
      b0 == b % 1000
  IN  a1 * b1 + ((a1 * b0 + a0 * b1 + ((a0 * b0) \div 1000)) \div 1000)
Mul(a, b) == Sgn(a) * Sgn(b) * MulParts(Abs(a), Abs(b))

\* the first n decimal digits of r / d, for 0 <= r < d
RECURSIVE FractionDigits(_, _, _, _)
FractionDigits(r, d, n, acc) ==
  IF n = 0 THEN acc
  ELSE FractionDigits((r * 10) % d, d, n - 1, acc * 10 + ((r * 10) \div d))

\* a / b on the grid, rounded towards zero (b is not 0)
Div(a, b) ==
  Sgn(a) * Sgn(b) * ((Abs(a) \div Abs(b)) * One + FractionDigits(Abs(a) % Abs(b), Abs(b), 6, 0))

\* a / n for a count n, rounded towards zero
Quot(a, n) == Sgn(a) * (Abs(a) \div n)

\* an image is the sequence of its voxels
RECURSIVE SumOf(_)
SumOf(image) == IF image = <<>> THEN 0 ELSE Head(image) + SumOf(Tail(image))
EmptyCopy(image) == [i \in DOMAIN image |-> 0]

\* threshold_min_to_small_positive_value: voxels below the floor are set to it
threshold_min_to_small_positive_value(image, floor) ==
  [i \in DOMAIN image |-> MaxOf(image[i], floor)]

\* threshold_upper_lower: voxels above new_max are set to new_max, others below
\* new_min to new_min
threshold_upper_lower(image, new_min, new_max) ==
  [i \in DOMAIN image |->
     IF image[i] > new_max THEN new_max
     ELSE IF image[i] < new_min THEN new_min
     ELSE image[i]]

\* divide: numerator / denominator voxel by voxel, the floor added to the
\* denominator
divide(numerator, denominator, floor) ==
  [i \in DOMAIN numerator |-> Div(numerator[i], denominator[i] + floor)]

\* data processors: a smoothing filter (every voxel becomes the mean of the
\* image), an edge filter (every voxel less the mean), and
\* ThresholdMinToSmallPositiveValueDataProcessor
Filters == {"mean", "edge"}
Thresholding == "ThresholdMinToSmallPositiveValue"
process(name, image) ==
  LET mean == Quot(SumOf(image), Len(image))
  IN  CASE name = "mean" -> [i \in DOMAIN image |-> mean]
        [] name = "edge" -> [i \in DOMAIN image |-> image[i] - mean]
        [] name = Thresholding -> threshold_min_to_small_positive_value(image, small_num)

\* a DataProcessor pointer is the sequence of the processors chained in it;
\* the null pointer is the sequence of none
null == <<>>
is_null_ptr(ptr) == ptr = null
ChainedDataProcessor(first, second) == first \o second
RECURSIVE apply(_, _)
apply(ptr, image) ==
  IF ptr = <<>> THEN image ELSE apply(Tail(ptr), process(Head(ptr), image))

\* lines 419-433 without the bounding of the denominator
additive_denominator_unbounded(prior_gradient, sensitivity, num_subsets) ==
  [i \in DOMAIN prior_gradient |-> Quot(prior_gradient[i], num_subsets) + sensitivity[i]]

\* MAP_model "additive": the denominator of the division
additive_denominator(prior_gradient, sensitivity, num_subsets) ==
  [i \in DOMAIN prior_gradient |->
     LET d == Quot(prior_gradient[i], num_subsets) + sensitivity[i]
     IN  MaxOf(MinOf(d, sensitivity[i] * 10), Quot(sensitivity[i], 10))]

\* lines 434-454 with the bounding after the multiplication by the sensitivity
multiplicative_denominator_bounded_last(prior_gradient, sensitivity) ==
  [i \in DOMAIN prior_gradient |->
     MaxOf(MinOf(Mul(prior_gradient[i] + One, sensitivity[i]), 10 * One), Quot(One, 10))]

\* MAP_model "multiplicative": the denominator of the division
multiplicative_denominator(prior_gradient, sensitivity) ==
  [i \in DOMAIN prior_gradient |->
     LET d == prior_gradient[i] + One
         bounded == MaxOf(MinOf(d, 10 * One), Quot(One, 10))
     IN  Mul(bounded, sensitivity[i])]

\* apply_multiplicative_update left out
apply_no_update(current_image_estimate, multiplicative_update_image) ==
  current_image_estimate

\* *current_image_estimate_iter *= *multiplicative_update_image_iter
apply_multiplicative_update(current_image_estimate, multiplicative_update_image) ==
  [i \in DOMAIN current_image_estimate |->
     Mul(current_image_estimate[i], multiplicative_update_image[i])]

\* lines 490-509 without the test of subiteration_num and the thresholding
update_unbounded(r, update) == update

\* the update image is thresholded in every sub-iteration but the one numbered 1
update_bounded(r, update) ==
  IF r.subiteration_num # 1
  THEN threshold_upper_lower(update, r.minimum_relative_change, r.maximum_relative_change)
  ELSE update

Poisson == "PoissonLogLikelihoodWithLinearModelForMean"

\* what the last call of set_up or update_estimate did
NoCall ==
  [op |-> "none", succeeded |-> TRUE, subiteration_num |-> 0, entry |-> <<>>,
   sensitivity |-> <<>>, prior_gradient |-> <<>>, prior_is_zero |-> TRUE,
   MAP_model |-> "", num_subsets |-> 0, denominator |-> <<>>, quotient |-> <<>>,
   filtered |-> FALSE, filter |-> null, after_filter |-> <<>>, update |-> <<>>,
   written |-> <<>>]

\* OSMAPOSLReconstruction(): set_defaults, then the objective function, the
\* number of subsets and the target image the caller supplies
Reconstruction(objective, balanced, prior_is_zero, num_subsets, target) ==
  [constructed |-> TRUE,
   objective_function |-> objective,
   subsets_are_approximately_balanced |-> balanced,
   prior_is_zero |-> prior_is_zero,
   num_subsets |-> num_subsets,
   enforce_initial_positivity |-> TRUE,
   maximum_relative_change |-> max_value,
   minimum_relative_change |-> 0,
   inter_update_filter_interval |-> 0,
   inter_update_filter_ptr |-> null,
   inter_iteration_filter_interval |-> 0,
   inter_iteration_filter_ptr |-> null,
   MAP_model |-> "additive",
   write_update_image |-> 0,
   disable_output |-> FALSE,
   output_filename_prefix |-> "output",
   subiteration_num |-> 1,
   terminated |-> FALSE,
   already_set_up |-> FALSE,
   estimate |-> target,
   multiplicative_update_image |-> <<>>,
   last |-> NoCall]

\* the filter set_up leaves in place: chained with the thresholding when the
\* interval is positive and a filter is there
chained_if_configured(interval, ptr) ==
  IF interval > 0 /\ ~is_null_ptr(ptr)
  THEN ChainedDataProcessor(ptr, <<Thresholding>>)
  ELSE ptr

\* set_up without its three tests
set_up_unchecked(r) ==
  LET target == IF r.enforce_initial_positivity
                THEN threshold_min_to_small_positive_value(r.estimate, small_num)
                ELSE r.estimate
  IN  [r EXCEPT
         !.estimate = target,
         !.inter_update_filter_ptr =
            chained_if_configured(r.inter_update_filter_interval, r.inter_update_filter_ptr),
         !.multiplicative_update_image = EmptyCopy(target),
         !.already_set_up = TRUE,
         !.last = [NoCall EXCEPT !.op = "set_up", !.entry = r.estimate]]

\* OSMAPOSLReconstruction::set_up on the target image r.estimate
set_up(r) ==
  LET failed == [r EXCEPT !.last = [NoCall EXCEPT !.op = "set_up", !.succeeded = FALSE,
                                                  !.entry = r.estimate]]
      target == IF r.enforce_initial_positivity
                THEN threshold_min_to_small_positive_value(r.estimate, small_num)
                ELSE r.estimate
  IN  IF r.objective_function # Poisson THEN failed
      ELSE IF ~r.subsets_are_approximately_balanced THEN failed
      ELSE IF r.inter_update_filter_interval < 0
      THEN [failed EXCEPT !.estimate = target]
      ELSE [r EXCEPT
              !.estimate = target,
              !.inter_update_filter_ptr =
                 chained_if_configured(r.inter_update_filter_interval, r.inter_update_filter_ptr),
              !.inter_iteration_filter_ptr =
                 chained_if_configured(r.inter_iteration_filter_interval, r.inter_iteration_filter_ptr),
              !.multiplicative_update_image = EmptyCopy(target),
              !.already_set_up = TRUE,
              !.last = [NoCall EXCEPT !.op = "set_up", !.entry = r.estimate]]

\* lines 476-488 moved below the thresholding: the file holds the bounded image
written_bounded_update_image(r, quotient, update) ==
  IF r.write_update_image # 0 /\ ~r.disable_output
  THEN << [fname |-> <<r.output_filename_prefix, "_update_", r.subiteration_num>>,
           image |-> update] >>
  ELSE <<>>

\* the files update_estimate writes: the update image as the division left it,
\* under the name sprintf("%s_update_%d") builds
written_update_image(r, quotient, update) ==
  IF r.write_update_image # 0 /\ ~r.disable_output
  THEN << [fname |-> <<r.output_filename_prefix, "_update_", r.subiteration_num>>,
           image |-> quotient] >>
  ELSE <<>>

\* OSMAPOSLReconstruction::update_estimate on r.estimate; numerator is what
\* compute_sub_gradient_without_penalty_plus_sensitivity writes, sensitivity the
\* subset sensitivity and prior_gradient what the prior's compute_gradient writes
update_estimate(r, numerator, sensitivity, prior_gradient) ==
  LET denominator ==
        IF r.prior_is_zero THEN sensitivity
        ELSE IF r.MAP_model = "additive"
        THEN additive_denominator(prior_gradient, sensitivity, r.num_subsets)
        ELSE IF r.MAP_model = "multiplicative"
        THEN multiplicative_denominator(prior_gradient, sensitivity)
        ELSE prior_gradient
      quotient == IF r.prior_is_zero
                  THEN divide(numerator, sensitivity, 0)
                  ELSE divide(numerator, denominator, small_num)
      due == /\ r.inter_update_filter_interval > 0
             /\ ~is_null_ptr(r.inter_update_filter_ptr)
             /\ r.subiteration_num % r.inter_update_filter_interval = 0
      after_filter == IF due THEN apply(r.inter_update_filter_ptr, r.estimate) ELSE r.estimate
      update == update_bounded(r, quotient)
      written == written_update_image(r, quotient, update)
  IN  [r EXCEPT
         !.multiplicative_update_image = update,
         !.estimate = apply_multiplicative_update(after_filter, update),
         !.last = [op |-> "update_estimate", succeeded |-> TRUE,
                   subiteration_num |-> r.subiteration_num, entry |-> r.estimate,
                   sensitivity |-> sensitivity, prior_gradient |-> prior_gradient,
                   prior_is_zero |-> r.prior_is_zero, MAP_model |-> r.MAP_model,
                   num_subsets |-> r.num_subsets,
                   denominator |-> denominator, quotient |-> quotient,
                   filtered |-> due,
                   filter |-> IF due THEN r.inter_update_filter_ptr ELSE null,
                   after_filter |-> after_filter, update |-> update,
                   written |-> written]]

\* ---- the specification of a reconstruction ----
MaxSubiterations == 2

\* the accessor plays no part here: one file without data, no call on it
InitNoStream ==
  /\ Constructed(IOGeometry(1), 0, default_segment_sequence(IOGeometry(1)),
                 Segment_AxialPos_View_TangPos, "float", 1)
  /\ result = NoResult
  /\ StreamIdle
  /\ io = NoIo
  /\ NoCalls
  /\ hdr = NoHeader

\* the target images a reconstruction starts from
Targets == { <<One, 0>>, <<2 * One, 0 - One>> }
\* what the parameter file (or the setters before set_up) may hold
RelativeChanges ==
  { <<max_value, 0>>, <<(3 * One) \div 2, One \div 2>>, <<(3 * One) \div 2, 2 * One>> }
Models == { <<TRUE, "additive", 1>>, <<FALSE, "additive", 1>>, <<FALSE, "additive", 2>>,
            <<FALSE, "multiplicative", 2>> }

InitOSMAPOSL ==
  /\ InitNoStream
  /\ \/ \E objective \in {<<"other", TRUE, 0>>, <<Poisson, FALSE, 0>>, <<Poisson, TRUE, 0 - 1>>} :
          recon = [Reconstruction(objective[1], objective[2], TRUE, 1, <<One, 0>>) EXCEPT
                     !.inter_update_filter_interval = objective[3]]
     \/ \E m \in Models, target \in Targets, positivity \in BOOLEAN, change \in RelativeChanges :
          recon = [Reconstruction(Poisson, TRUE, m[1], m[3], target) EXCEPT
                     !.MAP_model = m[2],
                     !.enforce_initial_positivity = positivity,
                     !.maximum_relative_change = change[1],
                     !.minimum_relative_change = change[2]]

Rest == <<accessor, result, stream, io, calls, hdr>>

\* error() throws: the caller catches it and goes on with the object as it is,
\* or the program ends
Raise(r) == IF r.last.succeeded THEN {r} ELSE {r, [r EXCEPT !.terminated = TRUE]}

SetInterUpdateFilterInterval ==
  /\ recon.constructed
  /\ \E arg \in {0, 1, 2} :
       /\ arg # recon.inter_update_filter_interval
       /\ recon' = [recon EXCEPT !.inter_update_filter_interval = arg]
  /\ UNCHANGED Rest

SetInterUpdateFilterPtr ==
  /\ recon.constructed
  /\ \E arg \in {null} \cup { <<f>> : f \in Filters } :
       /\ arg # recon.inter_update_filter_ptr
       /\ recon' = [recon EXCEPT !.inter_update_filter_ptr = arg]
  /\ UNCHANGED Rest

\* set_up is called once on a reconstruction, before its first sub-iteration
SetUp ==
  /\ recon.constructed
  /\ ~recon.terminated
  /\ ~recon.already_set_up
  /\ recon' \in Raise(set_up(recon))
  /\ UNCHANGED Rest

\* (numerator, subset sensitivity, prior gradient) of a sub-iteration
Inputs ==
  { << <<One, 2 * One>>, <<One, One>>, <<One, One>> >>,
    << <<One \div 5, 3 * One>>, <<One, One \div 2>>, <<0 - 3 * One, 20 * One>> >>,
    << <<0, One>>, <<2 * One, One>>, <<One \div 2, 0 - (One \div 2)>> >> }

\* one sub-iteration of the reconstruction loop: update_estimate, then the next
\* sub-iteration number
UpdateEstimate ==
  /\ recon.constructed
  /\ ~recon.terminated
  /\ recon.already_set_up
  /\ recon.subiteration_num <= MaxSubiterations
  /\ \E in \in Inputs :
       recon' = [update_estimate(recon, in[1], in[2], in[3]) EXCEPT
                   !.subiteration_num = recon.subiteration_num + 1]
  /\ UNCHANGED Rest

NextOSMAPOSL ==
  \/ SetInterUpdateFilterInterval
  \/ SetInterUpdateFilterPtr
  \/ SetUp
  \/ UpdateEstimate

SpecOSMAPOSL == InitOSMAPOSL /\ [][NextOSMAPOSL]_vars

\* ---- claims about the update ----
\* the last call on the reconstruction was update_estimate
Updated == recon.constructed /\ recon.last.op = "update_estimate"
Within(image, lo, hi) == \A i \in DOMAIN image : lo <= image[i] /\ image[i] <= hi
Clamp(x, lo, hi) == IF x < lo THEN lo ELSE IF x > hi THEN hi ELSE x

C16_WitnessFirstSubiteration ==
  /\ Updated
  /\ recon.last.subiteration_num = 1
  /\ \E i \in DOMAIN recon.last.update : recon.last.update[i] > recon.maximum_relative_change

\* a later sub-iteration under a minimum above the maximum
C16_MinimumAboveMaximum ==
  /\ Updated
  /\ recon.last.subiteration_num > 1
  /\ recon.minimum_relative_change > recon.maximum_relative_change

\* ---- claims about the denominator ----
\* the last call was update_estimate with a non-zero prior under the model given
UpdatedUnder(model) ==
  Updated /\ ~recon.last.prior_is_zero /\ recon.last.MAP_model = model

C17_WitnessWithin ==
  /\ UpdatedUnder("additive")
  /\ \E i \in DOMAIN recon.last.denominator :
       /\ recon.last.prior_gradient[i] # 0
       /\ recon.last.denominator[i] =
            Quot(recon.last.prior_gradient[i], recon.last.num_subsets) + recon.last.sensitivity[i]

\* C18: with a non-zero prior and MAP_model "multiplicative" the factor
\* priorGrad + 1 is held to [0.1, 10] before it is multiplied by the
\* sensitivity: the denominator is clamp(priorGrad + 1, 0.1, 10) x sensitivity.
C18_MultiplicativeFactorBoundedFirst ==
  UpdatedUnder("multiplicative") =>
    \A i \in DOMAIN recon.last.denominator :
      recon.last.denominator[i] =
        Mul(Clamp(recon.last.prior_gradient[i] + One, One \div 10, 10 * One),
            recon.last.sensitivity[i])

\* a factor above 10 and a factor below 0.1, under sensitivities other than 1
\* for which bounding the product instead gives another denominator
C18_Witness ==
  /\ UpdatedUnder("multiplicative")
  /\ \E i \in DOMAIN recon.last.denominator :
       /\ recon.last.prior_gradient[i] + One > 10 * One
       /\ recon.last.sensitivity[i] # One
       /\ recon.last.denominator[i] # 10 * One
  /\ \E i \in DOMAIN recon.last.denominator :
       recon.last.prior_gradient[i] + One < One \div 10

\* ---- claims about the estimate ----
Product(image, update) == [i \in DOMAIN image |-> Mul(image[i], update[i])]

\* C19 as stated: within one update_estimate call the estimate is modified at
\* one point only, the multiplication by the update image: up to it the
\* estimate is what the call was given, after it the product of the two.
C19_EstimateModifiedOnlyByTheMultiplication ==
  Updated =>
    /\ recon.last.after_filter = recon.last.entry
    /\ recon.estimate = Product(recon.last.entry, recon.last.update)

\* C19 amended: the estimate is modified at up to two points: the inter-update
\* filter, when it is due, is applied to it; then it is multiplied by the
\* update image. Without the filter the multiplication is the only one.
C19_EstimateModifiedByFilterAndMultiplication ==
  Updated =>
    /\ (~recon.last.filtered => recon.last.after_filter = recon.last.entry)
    /\ (recon.last.filtered =>
          /\ ~is_null_ptr(recon.last.filter)
          /\ recon.last.after_filter = apply(recon.last.filter, recon.last.entry))
    /\ recon.estimate = Product(recon.last.after_filter, recon.last.update)

\* the filter changed the estimate, and the multiplication changed it again
C19_Witness ==
  /\ Updated
  /\ recon.last.filtered
  /\ recon.last.after_filter # recon.last.entry
  /\ recon.estimate # recon.last.after_filter

\* a call without the filter, the multiplication changing the estimate
C19_WitnessNoFilter ==
  /\ Updated
  /\ ~recon.last.filtered
  /\ recon.estimate # recon.last.entry

AboveFloor(image) == \A i \in DOMAIN image : image[i] >= small_num
SetUpDone == recon.constructed /\ recon.last.op = "set_up" /\ recon.last.succeeded

\* C20 as stated: after set_up with enforce_initial_positivity every voxel of
\* the estimate is >= the floor 1e-6, and right after the inter-update filter
\* was applied in update_estimate every voxel of the estimate is >= the floor.
C20_EstimateStaysAboveFloor ==
  /\ ((SetUpDone /\ recon.enforce_initial_positivity) => AboveFloor(recon.estimate))
  /\ ((Updated /\ recon.last.filtered) => AboveFloor(recon.last.after_filter))

\* the part on set_up: holds
C20_SetUpEnforcesPositivity ==
  (SetUpDone /\ recon.enforce_initial_positivity) => AboveFloor(recon.estimate)

\* a filter that set_up chained with the thresholding keeps the floor
C20_ChainedFilterKeepsFloor ==
  (Updated /\ recon.last.filtered
   /\ recon.last.filter[Len(recon.last.filter)] = Thresholding) =>
     AboveFloor(recon.last.after_filter)

\* every filter applied ends with the thresholding: what the claim relies on
C20_AppliedFilterEndsWithThresholding ==
  (Updated /\ recon.last.filtered) =>
     recon.last.filter[Len(recon.last.filter)] = Thresholding

\* set_up thresholded a voxel that was below the floor
C20_SetUpRaisedAVoxel ==
  /\ SetUpDone /\ recon.enforce_initial_positivity
  /\ ~AboveFloor(recon.last.entry)

\* a filter without the thresholding was applied and left a voxel below the floor
C20_FilterAppliedWithoutThresholding ==
  /\ Updated /\ recon.last.filtered
  /\ recon.last.filter[Len(recon.last.filter)] # Thresholding
  /\ ~AboveFloor(recon.last.after_filter)

\* ------------------------------------------------------------------------
\* The parameters of a reconstruction: parsing, set_MAP_model, the prior
\* ------------------------------------------------------------------------
MAP_models == {"additive", "multiplicative"}

\* OSMAPOSLReconstruction::set_MAP_model: assigns, then error() unless the value
\* is one of the two
set_MAP_model(r, arg) ==
  [r EXCEPT !.MAP_model = arg,
            !.last = [NoCall EXCEPT !.op = "set_MAP_model", !.MAP_model = arg,
                                    !.prior_is_zero = r.prior_is_zero,
                                    !.succeeded = (arg \in MAP_models)]]

\* OSMAPOSLReconstruction::post_processing: set_MAP_model checks the value
\* parsed, when the objective function has a prior
post_processing(r) ==
  IF ~r.prior_is_zero
  THEN [set_MAP_model(r, r.MAP_model) EXCEPT !.last.op = "post_processing"]
  ELSE [r EXCEPT !.last = [NoCall EXCEPT !.op = "post_processing",
                                         !.MAP_model = r.MAP_model]]

\* a reconstruction as its constructor leaves it, on an objective function
\* with or without a prior
InitParameters ==
  /\ InitNoStream
  /\ \E prior_is_zero \in BOOLEAN, disable_output \in BOOLEAN :
       recon = [Reconstruction(Poisson, TRUE, prior_is_zero, 2, <<One, 0>>) EXCEPT
                  !.disable_output = disable_output]

\* parse: the keys of the parameter file are stored, then post_processing
Parse ==
  /\ ~recon.terminated
  /\ recon.last.op = "none"
  /\ \E model \in MAP_models \cup {"mean"}, write \in {0, 1},
        change \in { <<max_value, 0>>, <<(3 * One) \div 2, One \div 2>> } :
       recon' \in Raise(post_processing([recon EXCEPT
                                           !.MAP_model = model,
                                           !.write_update_image = write,
                                           !.maximum_relative_change = change[1],
                                           !.minimum_relative_change = change[2]]))
  /\ UNCHANGED Rest

SetMAPModel ==
  /\ ~recon.terminated
  /\ \E arg \in MAP_models \cup {"mean"} :
       /\ arg # recon.MAP_model
       /\ recon' \in Raise(set_MAP_model(recon, arg))
  /\ UNCHANGED Rest

\* GeneralisedObjectiveFunction::set_prior_sptr on the objective function the
\* reconstruction uses
SetPriorSptr ==
  /\ ~recon.terminated
  /\ recon' = [recon EXCEPT !.prior_is_zero = ~recon.prior_is_zero]
  /\ UNCHANGED Rest

NextParameters ==
  \/ Parse
  \/ SetMAPModel
  \/ SetPriorSptr
  \/ SetUp
  \/ UpdateEstimate

SpecParameters == InitParameters /\ [][NextParameters]_vars

\* ---- claims about MAP_model ----
Configured(ops) == recon.constructed /\ recon.last.op \in ops

\* C21 as stated: a MAP_model other than "additive" and "multiplicative" is
\* rejected with an error by set_MAP_model and by the post-processing of the
\* parsed parameters, and no update_estimate runs with such a value.
C21_OtherMAPModelRejected ==
  /\ ((Configured({"set_MAP_model", "post_processing"}) /\ recon.last.MAP_model \notin MAP_models)
        => ~recon.last.succeeded)
  /\ (Updated => recon.last.MAP_model \in MAP_models)

\* the part on set_MAP_model: holds
C21_SetMAPModelRejects ==
  (Configured({"set_MAP_model"}) /\ recon.last.MAP_model \notin MAP_models)
     => ~recon.last.succeeded

\* post_processing rejects the value when the objective function has a prior
C21_PostProcessingWithPriorRejects ==
  (Configured({"post_processing"}) /\ recon.last.MAP_model \notin MAP_models
   /\ ~recon.last.prior_is_zero)
     => ~recon.last.succeeded

\* parameters with another MAP_model were parsed without an error
C21_ParsedWithoutPriorAccepted ==
  /\ Configured({"post_processing"})
  /\ recon.last.MAP_model \notin MAP_models
  /\ recon.last.succeeded

\* update_estimate ran with another MAP_model
C21_UpdatedWithOtherMAPModel ==
  Updated /\ recon.last.MAP_model \notin MAP_models

C22_WitnessOtherObjective ==
  Configured({"set_up"}) /\ recon.objective_function # Poisson /\ ~recon.last.succeeded

\* set_up refused subsets out of balance
C22_WitnessUnbalanced ==
  Configured({"set_up"}) /\ ~recon.subsets_are_approximately_balanced /\ ~recon.last.succeeded

\* ---- claims about the update image written ----
Persisting == recon.write_update_image # 0 /\ ~recon.disable_output

\* C24 as stated: with write_update_image on and output not disabled,
\* update_estimate writes the update image once, under the name built from the
\* output prefix and the sub-iteration number, after the bounding and the
\* multiplication: the image written is the one multiplied into the estimate;
\* otherwise it writes nothing.
C24_WrittenImageIsTheOneApplied ==
  Updated =>
    /\ (Persisting =>
          /\ Len(recon.last.written) = 1
          /\ recon.last.written[1].fname =
               <<recon.output_filename_prefix, "_update_", recon.last.subiteration_num>>
          /\ recon.last.written[1].image = recon.last.update)
    /\ (~Persisting => recon.last.written = <<>>)

\* C24 amended: the image is written before the bounding and the
\* multiplication: it is the update image as the division left it, which is
\* the one applied in sub-iteration 1 and otherwise only where the bounding
\* changed nothing.
C24_WrittenImageIsTheQuotient ==
  Updated =>
    /\ (Persisting =>
          /\ Len(recon.last.written) = 1
          /\ recon.last.written[1].fname =
               <<recon.output_filename_prefix, "_update_", recon.last.subiteration_num>>
          /\ recon.last.written[1].image = recon.last.quotient
          /\ (recon.last.subiteration_num = 1 =>
                recon.last.written[1].image = recon.last.update))
    /\ (~Persisting => recon.last.written = <<>>)

\* an image was written that the bounding then changed
C24_Witness ==
  /\ Updated /\ Persisting
  /\ recon.last.subiteration_num > 1
  /\ recon.last.written # <<>>
  /\ recon.last.update # recon.last.quotient

\* nothing written with the output disabled though write_update_image is on
C24_WitnessOutputDisabled ==
  /\ Updated /\ recon.write_update_image # 0 /\ recon.disable_output
  /\ recon.last.written = <<>>

\* C28 as stated: whenever update_estimate runs with a non-zero prior,
\* MAP_model is "additive" or "multiplicative", and the denominator is one of
\* the two bounded combinations of prior gradient and sensitivity.
C28_MAPModelValidUnderPrior ==
  (Updated /\ ~recon.last.prior_is_zero) =>
    /\ recon.last.MAP_model \in MAP_models
    /\ recon.last.denominator \in
         { additive_denominator(recon.last.prior_gradient, recon.last.sensitivity,
                                recon.last.num_subsets),
           multiplicative_denominator(recon.last.prior_gradient, recon.last.sensitivity) }

\* a reconstruction whose parameters were parsed with a prior, and on which
\* no set_MAP_model failed and no prior was set later, has one of the two
C28_ParsedWithPriorIsValid ==
  (Configured({"post_processing"}) /\ ~recon.last.prior_is_zero /\ recon.last.succeeded)
     => recon.MAP_model \in MAP_models

\* update_estimate ran with a prior and another MAP_model: the denominator is
\* the prior gradient as compute_gradient left it
C28_UpdatedUnderPriorWithOtherMAPModel ==
  /\ Updated /\ ~recon.last.prior_is_zero
  /\ recon.last.MAP_model \notin MAP_models
  /\ recon.last.denominator = recon.last.prior_gradient

\* ------------------------------------------------------------------------
\* Interfile headers of projection data: writing, finding the storage order,
\* the segment sequence, the scale factors
\* ------------------------------------------------------------------------
\* the axis labels of a header: label [i] is the i-th of five, "" where the
\* header has none
AxisLabels(timing, segment, view, z, bin) ==
  [i \in 1..5 |->
     IF i = timing THEN "timing positions"
     ELSE IF i = segment THEN "segment"
     ELSE IF i = view THEN "view"
     ELSE IF i = z THEN "axial coordinate"
     ELSE IF i = bin THEN "tangential coordinate"
     ELSE ""]

\* order_of_timing_poss, order_of_segment, order_of_view, order_of_z and
\* order_of_bin after the switch on the storage order (none: its default)
order_of(so) ==
  CASE so = Segment_View_AxialPos_TangPos -> <<0, 4, 3, 2, 1>>
    [] so = Segment_AxialPos_View_TangPos -> <<0, 4, 2, 3, 1>>
    [] so = Timing_Segment_View_AxialPos_TangPos -> <<5, 4, 3, 2, 1>>
    [] OTHER -> <<>>

NoKeys == [num_dimensions |-> 0, matrix_labels |-> AxisLabels(0, 0, 0, 0, 0),
           matrix_size |-> <<>>]

\* write_basic_interfile_PDFS_header for the accessor: what it returns
\* (Succeeded::yes, Succeeded::no, or "error" when error() ends it) and the
\* number of dimensions, axis labels and matrix sizes of the header written
write_basic_interfile_PDFS_header(good, is_spect) ==
  IF ~good THEN [succeeded |-> "no", keys |-> NoKeys]
  ELSE IF is_spect
  THEN [succeeded |-> "yes",
        keys |-> [NoKeys EXCEPT !.matrix_size =
                    << <<get_num_tangential_poss>>, <<get_num_axial_poss(0)>> >>]]
  ELSE
    LET is_TOF == get_num_tof_poss > 1
        order == order_of(storage_order)
        sizes == [i \in 1..5 |->
                    IF i = order[1] THEN <<Len(timing_poss_sequence)>>
                    ELSE IF i = order[2] THEN <<Len(segment_sequence)>>
                    ELSE IF i = order[3] THEN <<get_num_views>>
                    ELSE IF i = order[4]
                    THEN [n \in DOMAIN segment_sequence |-> get_num_axial_poss(segment_sequence[n])]
                    ELSE IF i = order[5] THEN <<get_num_tangential_poss>>
                    ELSE <<>>]
    IN  IF order = <<>>
        THEN [succeeded |-> "error",
              keys |-> [NoKeys EXCEPT !.num_dimensions = IF is_TOF THEN 5 ELSE 4]]
        ELSE [succeeded |-> "yes",
              keys |-> [num_dimensions |-> IF is_TOF THEN 5 ELSE 4,
                        matrix_labels |-> AxisLabels(order[1], order[2], order[3], order[4], order[5]),
                        matrix_size |-> sizes]]

\* InterfilePDFSHeader::find_storage_order on the keys parsed: the storage
\* order found, or the parsing stopped
StopParsing == [stopped |-> TRUE, storage_order |-> Unsupported, num_timing_poss |-> 0]
Found(so, timing) == [stopped |-> FALSE, storage_order |-> so, num_timing_poss |-> timing]
find_storage_order(keys) ==
  LET num_dimensions == keys.num_dimensions
      matrix_labels == keys.matrix_labels
      num_timing_poss == IF num_dimensions = 4 THEN 1 ELSE keys.matrix_size[5][1]
  IN  IF num_dimensions # 4 /\ num_dimensions # 5 THEN StopParsing
      ELSE IF num_dimensions = 5 /\ matrix_labels[5] # "timing positions" THEN StopParsing
      ELSE IF matrix_labels[1] # "tangential coordinate" THEN StopParsing
      ELSE IF matrix_labels[4] = "segment"
              /\ matrix_labels[2] = "axial coordinate" /\ matrix_labels[3] = "view"
      THEN Found(IF num_dimensions > 4 THEN Timing_Segment_View_AxialPos_TangPos
                 ELSE Segment_View_AxialPos_TangPos, num_timing_poss)
      ELSE IF matrix_labels[4] = "segment"
              /\ matrix_labels[2] = "view" /\ matrix_labels[3] = "axial coordinate"
      THEN Found(IF num_dimensions > 4 THEN Timing_Segment_AxialPos_View_TangPos
                 ELSE Segment_AxialPos_View_TangPos, num_timing_poss)
      ELSE StopParsing

\* the orders std::sort may leave the locations 1..n in: ascending in the sum
\* of minimum and maximum ring difference, entries of equal sum in any order
Sum(min_ring_difference, max_ring_difference, i) ==
  min_ring_difference[i] + max_ring_difference[i]
SortedLocations(min_ring_difference, max_ring_difference) ==
  LET n == Len(min_ring_difference)
  IN  { loc \in [1..n -> 1..n] :
          /\ \A i, j \in 1..n : i # j => loc[i] # loc[j]
          /\ \A i \in 1..(n - 1) :
               Sum(min_ring_difference, max_ring_difference, loc[i])
                 <= Sum(min_ring_difference, max_ring_difference, loc[i + 1]) }

\* find_segment_sequence with the segments numbered in file order, not sorted
find_segment_sequence_in_file_order(sorted, num_rings_per_segment, min_ring_difference, max_ring_difference) ==
  LET n == Len(min_ring_difference)
      zero == Cardinality({ i \in 1..n :
                              Sum(min_ring_difference, max_ring_difference, i) < 0 })
  IN  IF zero = n \/ Sum(min_ring_difference, max_ring_difference, zero + 1) > 0
      THEN [outcome |-> "error"]
      ELSE [outcome |-> "returned",
            segment_sequence |-> [i \in 1..n |-> i - 1 - zero],
            sorted_min_ring_diff |-> [s \in (0 - zero)..(n - 1 - zero) |-> min_ring_difference[s + zero + 1]],
            sorted_max_ring_diff |-> [s \in (0 - zero)..(n - 1 - zero) |-> max_ring_difference[s + zero + 1]],
            sorted_num_rings_per_segment |->
              [s \in (0 - zero)..(n - 1 - zero) |-> num_rings_per_segment[s + zero + 1]]]

\* find_segment_sequence; sorted[i] is the location std::sort left at place i.
\* The sums are whole numbers: below -1E-3 is below 0, above 1E-3 above 0.
find_segment_sequence(sorted, num_rings_per_segment, min_ring_difference, max_ring_difference) ==
  LET num_segments == Len(min_ring_difference)
      sum(i) == Sum(min_ring_difference, max_ring_difference, sorted[i])
      \* the number of places passed while the sum is below -1E-3
      segment_zero_num == Cardinality({ i \in 1..num_segments : \A j \in 1..i : sum(j) < 0 })
      \* location_and_segment_num, place i (counted from 1)
      location(i) == sorted[i]
      segment_num(i) == i - 1 - segment_zero_num
      min_segment_num == segment_num(1)
      max_segment_num == segment_num(num_segments)
      place(s) == s + segment_zero_num + 1
      place_of(loc) == CHOOSE i \in 1..num_segments : sorted[i] = loc
  IN  IF segment_zero_num = num_segments \/ sum(segment_zero_num + 1) > 0
      THEN [outcome |-> "error"]
      ELSE [outcome |-> "returned",
            segment_sequence |-> [loc \in 1..num_segments |-> segment_num(place_of(loc))],
            sorted_min_ring_diff |->
              [s \in min_segment_num..max_segment_num |-> min_ring_difference[location(place(s))]],
            sorted_max_ring_diff |->
              [s \in min_segment_num..max_segment_num |-> max_ring_difference[location(place(s))]],
            sorted_num_rings_per_segment |->
              [s \in min_segment_num..max_segment_num |-> num_rings_per_segment[location(place(s))]]]

\* read_interfile_PDFS for a header of the kind given ("PET", "SPECT" for
\* modality NM, "Siemens" for one with a siemens_mi_version), its image
\* scaling factors of the first dataset, and the data file opening or not:
\* the accessor built (its scale factor), a null pointer, or error()
read_interfile_PDFS(kind, image_scaling_factors, good) ==
  LET unequal == \E i \in 2..Len(image_scaling_factors) :
                    image_scaling_factors[1] # image_scaling_factors[i]
      opened(warned, scale) ==
        IF ~good
        THEN [outcome |-> "null", warned |-> warned, warned_file |-> TRUE, scale_factor |-> 0]
        ELSE [outcome |-> "accessor", warned |-> warned, warned_file |-> FALSE,
              scale_factor |-> scale]
  IN  CASE kind = "SPECT" ->
             IF unequal
             THEN [outcome |-> "error", warned |-> FALSE, warned_file |-> FALSE, scale_factor |-> 0]
             ELSE opened(FALSE, image_scaling_factors[1])
        [] kind = "Siemens" -> opened(FALSE, 1)
        [] OTHER -> opened(unequal, image_scaling_factors[1])

\* ---- the specification of the header operations ----
InitHeader ==
  /\ \E k \in {1, 2}, o \in SupportedOrders :
       \/ Constructed(IOGeometry(k), 0, CentreOut(3), o, "float", 1)
       \/ Constructed(IOGeometry(k), 0, default_segment_sequence(IOGeometry(k)), o, "float", 1)
  /\ result = NoResult
  /\ StreamIdle
  /\ io = NoIo
  /\ NoCalls
  /\ recon = NoRecon
  /\ hdr = NoHeader

Others == <<accessor, result, stream, io, calls, recon>>

\* the header of the accessor is written
WriteHeader ==
  /\ hdr = NoHeader
  /\ \E good \in BOOLEAN, is_spect \in BOOLEAN :
       hdr' = [op |-> "write_basic_interfile_PDFS_header", good |-> good, is_spect |-> is_spect,
               written |-> write_basic_interfile_PDFS_header(good, is_spect),
               parsed |-> FALSE, found |-> StopParsing]
  /\ UNCHANGED Others

\* the PET header written is parsed again: its storage order is looked for
FindStorageOrderOfWritten ==
  /\ hdr.op = "write_basic_interfile_PDFS_header"
  /\ ~hdr.parsed
  /\ hdr.written.succeeded = "yes" /\ ~hdr.is_spect
  /\ hdr' = [hdr EXCEPT !.parsed = TRUE, !.found = find_storage_order(hdr.written.keys)]
  /\ UNCHANGED Others

\* headers written by hand: three to five dimensions, the labels in any order
Permutations4 ==
  { p \in [1..4 -> 1..4] : \A i, j \in 1..4 : i # j => p[i] # p[j] }
HeadersByHand ==
  { [num_dimensions |-> n,
     matrix_labels |-> AxisLabels(t, p[1], p[2], p[3], p[4]),
     matrix_size |-> [i \in 1..5 |-> <<2>>]] :
      n \in {3, 4, 5}, t \in {0, 5}, p \in Permutations4 }

FindStorageOrderOfHeader ==
  /\ hdr = NoHeader
  /\ \E keys \in HeadersByHand :
       hdr' = [op |-> "find_storage_order", keys |-> keys, found |-> find_storage_order(keys)]
  /\ UNCHANGED Others

\* per-segment keys of a header: one or three segments in file order
RingDifferences == { <<0 - 2, 0 - 1>>, <<0 - 1, 0 - 1>>, <<0 - 1, 1>>, <<0, 0>>, <<1, 1>>, <<1, 2>> }
SegmentKeys ==
  { <<a>> : a \in RingDifferences } \cup
  { <<a, b, c>> : a \in RingDifferences, b \in RingDifferences, c \in RingDifferences }

\* InterfilePDFSHeader::post_processing calls find_segment_sequence with the
\* per-segment keys, all of num_segments entries
FindSegmentSequence ==
  /\ hdr = NoHeader
  /\ \E keys \in SegmentKeys :
       LET min_ring_difference == [i \in DOMAIN keys |-> keys[i][1]]
           max_ring_difference == [i \in DOMAIN keys |-> keys[i][2]]
           num_rings_per_segment == [i \in DOMAIN keys |-> 10 + i]
       IN  \E sorted \in SortedLocations(min_ring_difference, max_ring_difference) :
             hdr' = [op |-> "find_segment_sequence",
                     min_ring_difference |-> min_ring_difference,
                     max_ring_difference |-> max_ring_difference,
                     num_rings_per_segment |-> num_rings_per_segment,
                     returned |-> find_segment_sequence(sorted, num_rings_per_segment,
                                                        min_ring_difference, max_ring_difference)]
  /\ UNCHANGED Others

ReadInterfilePDFS ==
  /\ hdr = NoHeader
  /\ \E kind \in {"PET", "SPECT", "Siemens"}, good \in BOOLEAN,
        image_scaling_factors \in { <<1>>, <<2, 2>>, <<2, 1>>, <<1, 1, 2>> } :
       hdr' = [op |-> "read_interfile_PDFS", kind |-> kind,
               image_scaling_factors |-> image_scaling_factors, good |-> good,
               returned |-> read_interfile_PDFS(kind, image_scaling_factors, good)]
  /\ UNCHANGED Others

NextHeader ==
  \/ WriteHeader
  \/ FindStorageOrderOfWritten
  \/ FindStorageOrderOfHeader
  \/ FindSegmentSequence
  \/ ReadInterfilePDFS

SpecHeader == InitHeader /\ [][NextHeader]_vars

\* ---- C23 ----
ReadUnequalFactors ==
  /\ hdr.op = "read_interfile_PDFS"
  /\ \E i \in 2..Len(hdr.image_scaling_factors) :
       hdr.image_scaling_factors[1] # hdr.image_scaling_factors[i]

\* C23 as stated: reading a projection-data header whose scale factors are
\* not all equal does not abort; it only emits a warning and builds the
\* accessor with the first scale factor.
C23_UnequalFactorsOnlyWarn ==
  ReadUnequalFactors =>
    /\ hdr.returned.outcome # "error"
    /\ hdr.returned.warned
    /\ (hdr.good => (/\ hdr.returned.outcome = "accessor"
                     /\ hdr.returned.scale_factor = hdr.image_scaling_factors[1]))

\* it holds of the headers read_interfile_PDFS reads itself (PET)
C23_PETOnlyWarns ==
  (ReadUnequalFactors /\ hdr.kind = "PET") =>
    /\ hdr.returned.outcome # "error"
    /\ hdr.returned.warned
    /\ (hdr.good => (/\ hdr.returned.outcome = "accessor"
                     /\ hdr.returned.scale_factor = hdr.image_scaling_factors[1]))

\* a SPECT header of unequal scale factors: error(), no accessor
C23_SPECTEndsInError ==
  /\ ReadUnequalFactors
  /\ hdr.kind = "SPECT" /\ hdr.good
  /\ hdr.returned.outcome = "error"

\* a PET header of unequal scale factors: the accessor with the first one
C23_PETBuiltWithFirstFactor ==
  /\ ReadUnequalFactors
  /\ hdr.kind = "PET"
  /\ hdr.image_scaling_factors = <<2, 1>>
  /\ hdr.returned.outcome = "accessor" /\ hdr.returned.warned
  /\ hdr.returned.scale_factor = 2

\* ---- C29 ----
FoundSegmentSequence == hdr.op = "find_segment_sequence"
FileSum(i) == Sum(hdr.min_ring_difference, hdr.max_ring_difference, i)

\* C29: find_segment_sequence, for an odd number of segments in file order,
\* ends in a fatal error exactly if no segment has a sum of minimum and
\* maximum ring difference of 0; otherwise the numbers it returns, in file
\* order, are a permutation of consecutive integers min_segment..max_segment
\* that rises with the sum, a segment of sum 0 has number 0, and each
\* sorted_* output holds at index n the value of the file entry numbered n.
C29_SegmentsNumberedByRank ==
  (FoundSegmentSequence /\ Len(hdr.min_ring_difference) % 2 = 1) =>
    LET n == Len(hdr.min_ring_difference)
        r == hdr.returned
    IN  IF \A i \in 1..n : FileSum(i) # 0
        THEN r.outcome = "error"
        ELSE /\ r.outcome = "returned"
             /\ Len(r.segment_sequence) = n
             /\ \E lo \in (0 - n)..0 :
                  /\ IsPermutationOf(r.segment_sequence, lo, lo + n - 1)
                  /\ DOMAIN r.sorted_min_ring_diff = lo..(lo + n - 1)
                  /\ DOMAIN r.sorted_max_ring_diff = lo..(lo + n - 1)
                  /\ DOMAIN r.sorted_num_rings_per_segment = lo..(lo + n - 1)
             /\ \A i, j \in 1..n :
                  FileSum(i) < FileSum(j) => r.segment_sequence[i] < r.segment_sequence[j]
             /\ \E i \in 1..n : r.segment_sequence[i] = 0 /\ FileSum(i) = 0
             /\ \A i \in 1..n :
                  /\ r.sorted_min_ring_diff[r.segment_sequence[i]] = hdr.min_ring_difference[i]
                  /\ r.sorted_max_ring_diff[r.segment_sequence[i]] = hdr.max_ring_difference[i]
                  /\ r.sorted_num_rings_per_segment[r.segment_sequence[i]]
                       = hdr.num_rings_per_segment[i]

\* three segments in the file order 0, +1, -1 were numbered
C29_Witness ==
  /\ FoundSegmentSequence
  /\ hdr.min_ring_difference = <<0, 1, 0 - 1>>
  /\ hdr.returned.outcome = "returned"
  /\ hdr.returned.segment_sequence = <<0, 1, 0 - 1>>
  /\ hdr.returned.sorted_num_rings_per_segment[0 - 1] = 13

\* three segments none of which has the sum 0: error()
C29_WitnessNoSegmentZero ==
  /\ FoundSegmentSequence
  /\ Len(hdr.min_ring_difference) = 3
  /\ \A i \in 1..3 : FileSum(i) # 0
  /\ hdr.returned.outcome = "error"

\* two segments of sum 0: either may get number 0, the other gets 1
C29_WitnessTwoOfSumZero ==
  /\ FoundSegmentSequence
  /\ hdr.min_ring_difference = <<0, 0 - 1, 1>>
  /\ hdr.max_ring_difference = <<0, 1, 1>>
  /\ hdr.returned.outcome = "returned"
  /\ hdr.returned.segment_sequence = <<1, 0, 2>>

\* ---- C30 ----
WrotePETHeader ==
  /\ hdr.op = "write_basic_interfile_PDFS_header"
  /\ hdr.good /\ ~hdr.is_spect

\* C30 as stated: for each of the four supported storage orders the PET
\* header is written with success, and find_storage_order maps the number of
\* dimensions and axis labels written back to the same storage order.
C30_WrittenOrderFoundAgain ==
  (WrotePETHeader /\ storage_order \in SupportedOrders) =>
     /\ hdr.written.succeeded = "yes"
     /\ (hdr.parsed => (~hdr.found.stopped /\ hdr.found.storage_order = storage_order))

\* the orders the switch of the writer has a case for are found again when
\* the order is a Timing one exactly if the data are TOF
C30_OrdersOfTheSwitchFoundAgain ==
  (/\ WrotePETHeader
   /\ order_of(storage_order) # <<>>
   /\ (get_num_tof_poss > 1 <=> order_of(storage_order)[1] > 0)) =>
     /\ hdr.written.succeeded = "yes"
     /\ (hdr.parsed => (~hdr.found.stopped /\ hdr.found.storage_order = storage_order))

\* the writer ended in error() for TOF data stored axial position major
C30_WriterEndedInError ==
  /\ WrotePETHeader
  /\ storage_order = Timing_Segment_AxialPos_View_TangPos
  /\ get_num_tof_poss > 1
  /\ hdr.written.succeeded = "error"

\* a Timing order of data without TOF is written with four dimensions and
\* found again as the order without timing positions
C30_TimingOrderFoundWithoutTiming ==
  /\ WrotePETHeader /\ hdr.parsed
  /\ storage_order = Timing_Segment_View_AxialPos_TangPos
  /\ hdr.found = Found(Segment_View_AxialPos_TangPos, 1)

\* ---- C25 ----
\* a thread in a call goes on running: its steps are taken in the end, and a
\* thread waiting for a critical section that stays free gets in
Running(t) ==
  \/ CallsOther(t) \/ EnterCritical(t) \/ BlockSeek(t) \/ BinSeek(t) \/ ReadWrite(t)
  \/ LeaveCritical(t)

SpecThreadsFair == SpecThreads /\ \A t \in Threads : WF_vars(Running(t))

AllReturned == \A t \in Threads : threads[t].pc = "done"

\* the steps a call has left to take before it is out of the critical section
Remaining(call) ==
  IF call.pc \notin {"seek", "rw", "leave"} \/ call.op \notin BlockLevel THEN 0
  ELSE IF call.pc = "leave" THEN 1
  ELSE 2 * (Len(RowsOfCall(call.op)) - call.i) + (IF call.pc = "seek" THEN 3 ELSE 2)

\* the thread inside can take a step of its own, whatever the others do
CanGoOn(t) == ENABLED (BlockSeek(t) \/ ReadWrite(t) \/ LeaveCritical(t))

\* C25: a thread that enters the critical section always leaves it, also when
\* the offset computation, a seek, a read or a write inside it fails: while
\* inside it can always take a step, each step of it (a failure included)
\* brings it nearer to the end of the section, and it returns only after it
\* has left; no block-level call, the segment operations that call each other
\* included, comes to the critical section while it is inside; and as long as
\* a call has not returned some thread can take a step: no deadlock.
C25_CriticalSectionAlwaysLeft ==
  /\ [](\A t \in Threads :
          /\ Is(t, BlockLevel, {"enter"}) => critical # t
          /\ critical = t => (InRegion(t) /\ CanGoOn(t) /\ Remaining(threads[t]) > 0)
          /\ threads[t].pc \in {"idle", "done"} => critical # t)
  /\ [](AllReturned \/ ENABLED NextThreads)
  /\ [][\A t \in Threads :
          critical = t =>
            /\ critical' \in {t, 0}
            /\ (critical' = 0) = (threads'[t].pc = "done")
            /\ threads'[t] # threads[t] => Remaining(threads'[t]) < Remaining(threads[t])]_vars

\* C25, as a property of the fair behaviours: a thread inside the critical
\* section is outside it again later
C25_InsideLeadsToOutside ==
  \A t \in Threads : (critical = t) ~> (critical # t)

\* a call failed inside the critical section (the offset of its bin was not
\* computed) and has returned; another thread, which waited, is inside now
C25_Witness ==
  \E t \in Threads, u \in Threads :
    /\ Is(t, BlockLevel, {"done"}) /\ ~threads[t].succeeded /\ stream_good
    /\ critical = u /\ u # t
    /\ Is(u, BlockLevel, {"seek", "rw", "leave"})

\* a segment operation called the other one, which has come to the critical
\* section and waits there while another thread is inside
C25_WitnessCalledOther ==
  \E t \in Threads, u \in Threads :
    /\ Is(t, SegmentLevel, {"enter"}) /\ threads[t].depth = 2
    /\ InOwnOrder(threads[t].op)
    /\ critical = u /\ u # t

\* every call has returned, one of them having failed on a seek
C25_WitnessAllReturned ==
  /\ AllReturned /\ ~stream_good /\ critical = 0
  /\ \E t \in Threads : threads[t].op \in BlockLevel /\ ~threads[t].succeeded

\* ---- C26 ----
BlockGets == {"get_viewgram", "get_sinogram", "get_segment_by_view", "get_segment_by_sinogram"}

\* the bin of the element x = <<axial, view, tangential>> (counted from 0) of
\* the viewgram, sinogram or segment asked for with args
BinOfElement(args, x) ==
  Bin(args.segment_num, get_min_view_num + x[2],
      get_min_axial_pos_num(args.segment_num) + x[1],
      get_min_tangential_pos_num + x[3], args.timing_pos_num)

\* C26: on an unmodified stream, for every supported storage order, with TOF
\* and without, each element of what get_viewgram, get_sinogram,
\* get_segment_by_view and get_segment_by_sinogram return is the value
\* get_bin_value returns for the bin of that element on the same stream.
C26_BinValueIsTheElementOfTheBlock ==
  [][(/\ io = NoIo /\ stream_data = InitialFile
      /\ io'.op \in BlockGets /\ io'.outcome = "value") =>
       \A x \in DOMAIN io'.value :
         LET b == BinOfElement(io'.args, x)
         IN  /\ InRange(b)
             /\ get_bin_value(b, "none").outcome = "value"
             /\ get_bin_value(b, "none").value = io'.value[x]]_vars

\* the bins of the block returned are all the in-range bins of its view,
\* axial position or segment, at its timing position
C26_BlockHoldsEveryBin ==
  (io.op \in BlockGets /\ io.outcome = "value") =>
    \A b \in InRangeBins :
      (/\ b.segment_num = io.args.segment_num
       /\ b.timing_pos_num = io.args.timing_pos_num
       /\ (io.op = "get_viewgram" => b.view_num = io.args.view_num)
       /\ (io.op = "get_sinogram" => b.axial_pos_num = io.args.axial_pos_num))
        => \E x \in DOMAIN io.value : BinOfElement(io.args, x) = b

\* a segment of TOF data stored as shorts with scale factor 2 was read by view
\* from a stream stored axial position major, at the second timing position
C26_Witness ==
  /\ io.op = "get_segment_by_view" /\ io.outcome = "value"
  /\ AxialPosMajor(storage_order) /\ get_num_tof_poss > 1
  /\ io.args.timing_pos_num = get_max_tof_pos_num
  /\ on_disk_data_type = "short" /\ scale_factor = 2
  /\ segment_sequence = CentreOut(3)

\* a viewgram and a sinogram were read, without TOF, stored view major
C26_WitnessViewgram ==
  /\ io.op = "get_viewgram" /\ io.outcome = "value"
  /\ ViewMajor(storage_order) /\ get_num_tof_poss = 1
  /\ io.args.view_num = get_max_view_num /\ io.args.segment_num = 0
C26_WitnessSinogram ==
  /\ io.op = "get_sinogram" /\ io.outcome = "value"
  /\ ViewMajor(storage_order) /\ get_num_tof_poss = 1
  /\ io.args.axial_pos_num = get_max_axial_pos_num(0) /\ io.args.segment_num = 0

\* ---- C27 ----
\* the bin b belongs to the viewgram, sinogram or bin the operation wrote
BelongsToWritten(call, b) ==
  CASE call.op = "set_viewgram" ->
         /\ b.segment_num = call.args.object.segment_num
         /\ b.view_num = call.args.object.view_num
         /\ b.timing_pos_num = call.args.object.timing_pos_num
    [] call.op = "set_sinogram" ->
         /\ b.segment_num = call.args.object.segment_num
         /\ b.axial_pos_num = call.args.object.axial_pos_num
         /\ b.timing_pos_num = call.args.object.timing_pos_num
    [] call.op = "set_bin_value" -> b = call.args.bin
    [] OTHER -> FALSE

\* the step is a successful set_viewgram, set_sinogram or set_bin_value
SetSucceeds ==
  /\ io = NoIo
  /\ io'.op \in {"set_viewgram", "set_sinogram", "set_bin_value"}
  /\ io'.outcome \in {"yes", "done"}

\* every in-range bin that does not belong to what was written reads back,
\* after the step, the value it read back before it
OtherBinsKeepTheirValue ==
  \A b \in InRangeBins :
    (~BelongsToWritten(io', b) /\ get_bin_value(b, "none").outcome = "value") =>
      /\ get_bin_value(b, "none")'.outcome = "value"
      /\ get_bin_value(b, "none")'.value = get_bin_value(b, "none").value

\* C27 as stated: a successful set_viewgram, set_sinogram or set_bin_value
\* changes the stored value only of bins of the written viewgram, sinogram or
\* bin; every other in-range bin reads back its previous value afterwards.
C27_OnlyTheWrittenBinsChange ==
  [][SetSucceeds => OtherBinsKeepTheirValue]_vars

\* it holds of an accessor whose segment sequence lists every segment once
C27_OnlyTheWrittenBinsChangeUnderAnOrder ==
  [][(SetSucceeds /\ IsPermutationOf(segment_sequence, get_min_segment_num, get_max_segment_num))
       => OtherBinsKeepTheirValue]_vars

\* a sinogram of segment 0 was written with success and a bin of segment 1 no
\* longer holds the element the file had there
C27_BinOfAnotherSegmentChanged ==
  /\ io.op = "set_sinogram" /\ io.outcome = "yes"
  /\ io.args.object.segment_num = 0
  /\ \E b \in InRangeBins :
       /\ b.segment_num = 1
       /\ get_offset(b).off \in DOMAIN InitialFile
       /\ stream_data[get_offset(b).off] # InitialFile[get_offset(b).off]

\* a viewgram was written to an accessor whose sequence lists every segment
C27_ViewgramWrittenUnderAnOrder ==
  /\ io.op = "set_viewgram" /\ io.outcome = "yes"
  /\ segment_sequence = CentreOut(3) /\ get_num_tof_poss > 1
  /\ stream_data # InitialFile

====
